---- MODULE Spec2Model ----
(***************************************************************************)
(* Model of the trigger algebra and guard engine of package annotation:    *)
(* producers (produce_trigger.go), consumers and the consume-trigger slice *)
(* operations (consume_trigger.go).                                        *)
(*                                                                         *)
(* A trigger annotation is a record whose field 'variant' names the Go     *)
(* struct type and whose other fields are the struct's fields; the struct  *)
(* a variant embeds (its base) is given by ProducerBase / ConsumerBase,    *)
(* and a method the variant does not declare is the promoted method of the *)
(* base, called on the embedded base value.                                *)
(***************************************************************************)
EXTENDS Integers, Sequences, FiniteSets, TLC

VARIABLES
    pc,            \* position of the pair pipeline / of the slice engine
    producer,      \* the *ProduceTrigger of the full trigger
    consumer,      \* the *ConsumeTrigger of the full trigger (by value)
    setCall,       \* the last SetNeedsGuard call: receiver, argument, result
    annMap,        \* the annotation map the pair is evaluated against
    diag,          \* what the diagnostic pipeline did with the pair
    triggers,      \* heap of ConsumeTrigger objects (address = index)
    gsets,         \* heap of GuardNonceSet maps (address = index)
    slices,        \* the consume-trigger slices held by the engine
    call           \* the last slice operation: name, arguments, result

vars == <<pc, producer, consumer, setCall, annMap, diag, triggers, gsets, slices, call>>

pairVars == <<producer, consumer, setCall, annMap, diag>>
sliceVars == <<triggers, gsets, slices, call>>

----------------------------------------------------------------------------
(* Bounds of the model *)

\* parameter and result indices range over 0..MaxIndex
MaxIndex == 0

----------------------------------------------------------------------------
(* Declarations of the analysed program that triggers refer to *)

FuncDecls == {"foo"}
Indices == 0..MaxIndex
Locations == {"a.go:7:3", "a.go:9:5"}
FieldDecls == {"fld"}
VarDecls == {"v"}
TypeDecls == {"T"}
AffiliationPairs == {[ImplementingMethod |-> "S.m", InterfaceMethod |-> "I.m"]}

----------------------------------------------------------------------------
(* Site keys and the annotation map (package annotation, key.go / map.go)  *)

NilKey == [key |-> "nil"]

ParamAnnotationKey(f, n) == [key |-> "ParamAnnotationKey", FuncDecl |-> f, ParamNum |-> n]

NewCallSiteParamKey(f, n, loc) ==
    [key |-> "CallSiteParamAnnotationKey", FuncDecl |-> f, ParamNum |-> n, Location |-> loc]

RetAnnotationKey(f, n) == [key |-> "RetAnnotationKey", FuncDecl |-> f, RetNum |-> n]

NewCallSiteRetKey(f, n, loc) ==
    [key |-> "CallSiteRetAnnotationKey", FuncDecl |-> f, RetNum |-> n, Location |-> loc]

RecvAnnotationKey(f) == [key |-> "RecvAnnotationKey", FuncDecl |-> f]

FieldAnnotationKey(fld) == [key |-> "FieldAnnotationKey", FieldDecl |-> fld]

EscapeFieldAnnotationKey(fld) == [key |-> "EscapeFieldAnnotationKey", FieldDecl |-> fld]

ParamFieldAnnotationKey(f, n, fld) ==
    [key |-> "ParamFieldAnnotationKey", FuncDecl |-> f, ParamNum |-> n, FieldDecl |-> fld]

RetFieldAnnotationKey(f, n, fld) ==
    [key |-> "RetFieldAnnotationKey", FuncDecl |-> f, RetNum |-> n, FieldDecl |-> fld]

GlobalVarAnnotationKey(v) == [key |-> "GlobalVarAnnotationKey", VarDecl |-> v]

TypeNameAnnotationKey(t) == [key |-> "TypeNameAnnotationKey", TypeDecl |-> t]

ParamKeys == {ParamAnnotationKey(f, n) : f \in FuncDecls, n \in Indices}
CallSiteParamKeys == {NewCallSiteParamKey(f, n, l) : f \in FuncDecls, n \in Indices, l \in Locations}
RetKeys == {RetAnnotationKey(f, n) : f \in FuncDecls, n \in Indices}
CallSiteRetKeys == {NewCallSiteRetKey(f, n, l) : f \in FuncDecls, n \in Indices, l \in Locations}
RecvKeys == {RecvAnnotationKey(f) : f \in FuncDecls}
FieldKeys == {FieldAnnotationKey(d) : d \in FieldDecls}
EscapeFieldKeys == {EscapeFieldAnnotationKey(d) : d \in FieldDecls}
ParamFieldKeys == {ParamFieldAnnotationKey(f, n, d) : f \in FuncDecls, n \in Indices, d \in FieldDecls}
RetFieldKeys == {RetFieldAnnotationKey(f, n, d) : f \in FuncDecls, n \in Indices, d \in FieldDecls}
GlobalVarKeys == {GlobalVarAnnotationKey(v) : v \in VarDecls}
TypeNameKeys == {TypeNameAnnotationKey(t) : t \in TypeDecls}

\* the name of the parameter a ParamAnnotationKey or CallSiteParamAnnotationKey is about
ParamNameString(k) == "p" \o ToString(k.ParamNum)

\* annotation.Val: the nilability fact of a site
Vals == [IsNilable : BOOLEAN, IsDeepNilable : BOOLEAN]

\* annotation.Map restricted to the given keys: a function from some of them to a Val
MapsOver(keys) == UNION {[d -> Vals] : d \in SUBSET keys}

EmptyMap == [k \in {} |-> [IsNilable |-> FALSE, IsDeepNilable |-> FALSE]]

\* Key.Lookup(annMap): (Val, bool)
Lookup(k, m) ==
    IF k \in DOMAIN m
    THEN [ann |-> m[k], ok |-> TRUE]
    ELSE [ann |-> [IsNilable |-> FALSE, IsDeepNilable |-> FALSE], ok |-> FALSE]

\* TriggerKind
Always == "Always"
Never == "Never"
Conditional == "Conditional"
DeepConditional == "DeepConditional"

----------------------------------------------------------------------------
(* Producers: produce_trigger.go *)

\* the four structs every ProducingAnnotationTrigger embeds one of
ProducerBases == {"TriggerIfNilable", "TriggerIfDeepNilable", "ProduceTriggerTautology", "ProduceTriggerNever"}

\* the struct each producer type embeds (a base embeds itself)
ProducerBase(variant) ==
    CASE variant \in {"TriggerIfNilable", "FuncParam", "MethodRecv", "FldRead", "ParamFldRead",
                      "FldReturn", "FuncReturn", "MethodReturn", "MethodResultReachesInterface",
                      "InterfaceParamReachesImplementation", "GlobalVarRead",
                      "VariadicFuncParamDeep"} -> "TriggerIfNilable"
      [] variant \in {"TriggerIfDeepNilable", "MethodRecvDeep", "MapRead", "ArrayRead", "SliceRead",
                      "PtrRead", "ChanRecv", "FuncParamDeep", "FuncReturnDeep", "FldReadDeep",
                      "GlobalVarReadDeep"} -> "TriggerIfDeepNilable"
      [] variant \in {"ProduceTriggerTautology", "PositiveNilCheck", "ConstNil", "UnassignedFld",
                      "NoVarAssign", "BlankVarReturn", "VariadicFuncParam", "TrustedFuncNilable",
                      "GuardMissing"} -> "ProduceTriggerTautology"
      [] variant \in {"ProduceTriggerNever", "ExprOkCheck", "RangeIndexAssignment",
                      "NegativeNilCheck", "OkReadReflCheck", "RangeOver", "TrustedFuncNonnil",
                      "LocalVarReadDeep"} -> "ProduceTriggerNever"

\* the embedded base struct of a producer value, as a value of its own
TriggerIfNilable(k) == [variant |-> "TriggerIfNilable", Ann |-> k]
TriggerIfDeepNilable(k) == [variant |-> "TriggerIfDeepNilable", Ann |-> k]
ProduceTriggerTautology == [variant |-> "ProduceTriggerTautology"]
ProduceTriggerNever == [variant |-> "ProduceTriggerNever"]

EmbeddedProducerBase(p) ==
    CASE ProducerBase(p.variant) = "TriggerIfNilable" -> TriggerIfNilable(p.Ann)
      [] ProducerBase(p.variant) = "TriggerIfDeepNilable" -> TriggerIfDeepNilable(p.Ann)
      [] ProducerBase(p.variant) = "ProduceTriggerTautology" -> ProduceTriggerTautology
      [] ProducerBase(p.variant) = "ProduceTriggerNever" -> ProduceTriggerNever

\* the producer types that declare NeedsGuardMatch and SetNeedsGuard themselves
GuardFlagVariants ==
    {"FuncReturn", "MapRead", "ChanRecv", "FuncParamDeep", "VariadicFuncParamDeep",
     "FuncReturnDeep", "FldReadDeep", "LocalVarReadDeep", "GlobalVarReadDeep"}

(* constructors of the catalogue *)
PlainNever(variant) == [variant |-> variant]
PlainTautology(variant) == [variant |-> variant]
NoVarAssign(v) == [variant |-> "NoVarAssign", VarObj |-> v]
VariadicFuncParam(v) == [variant |-> "VariadicFuncParam", VarDecl |-> v]
FuncParam(k) == [variant |-> "FuncParam", Ann |-> k]
MethodRecv(k, v) == [variant |-> "MethodRecv", Ann |-> k, VarDecl |-> v]
MethodRecvDeep(k, v) == [variant |-> "MethodRecvDeep", Ann |-> k, VarDecl |-> v]
FldRead(k) == [variant |-> "FldRead", Ann |-> k]
ParamFldRead(k) == [variant |-> "ParamFldRead", Ann |-> k]
FldReturn(k) == [variant |-> "FldReturn", Ann |-> k]
FuncReturn(k, g) == [variant |-> "FuncReturn", Ann |-> k, Guarded |-> g]
MethodReturn(k) == [variant |-> "MethodReturn", Ann |-> k]
MethodResultReachesInterface(k, a) ==
    [variant |-> "MethodResultReachesInterface", Ann |-> k, AffiliationPair |-> a]
InterfaceParamReachesImplementation(k, a) ==
    [variant |-> "InterfaceParamReachesImplementation", Ann |-> k, AffiliationPair |-> a]
GlobalVarRead(k) == [variant |-> "GlobalVarRead", Ann |-> k]
MapRead(k, g) == [variant |-> "MapRead", Ann |-> k, NeedsGuard |-> g]
ArrayRead(k) == [variant |-> "ArrayRead", Ann |-> k]
SliceRead(k) == [variant |-> "SliceRead", Ann |-> k]
PtrRead(k) == [variant |-> "PtrRead", Ann |-> k]
ChanRecv(k, g) == [variant |-> "ChanRecv", Ann |-> k, NeedsGuard |-> g]
FuncParamDeep(k, g) == [variant |-> "FuncParamDeep", Ann |-> k, NeedsGuard |-> g]
VariadicFuncParamDeep(k, g) == [variant |-> "VariadicFuncParamDeep", Ann |-> k, NeedsGuard |-> g]
FuncReturnDeep(k, g) == [variant |-> "FuncReturnDeep", Ann |-> k, NeedsGuard |-> g]
FldReadDeep(k, g) == [variant |-> "FldReadDeep", Ann |-> k, NeedsGuard |-> g]
LocalVarReadDeep(v, g) == [variant |-> "LocalVarReadDeep", NeedsGuard |-> g, ReadVar |-> v]
GlobalVarReadDeep(k, g) == [variant |-> "GlobalVarReadDeep", Ann |-> k, NeedsGuard |-> g]
GuardMissing(old) == [variant |-> "GuardMissing", OldAnnotation |-> old]

\* the producers the assertion builder constructs (GuardMissing is never among them)
BuiltProducers ==
    {PlainNever(n) : n \in {"ExprOkCheck", "RangeIndexAssignment", "NegativeNilCheck",
                            "OkReadReflCheck", "RangeOver", "TrustedFuncNonnil"}}
    \cup {PlainTautology(n) : n \in {"PositiveNilCheck", "ConstNil", "UnassignedFld",
                                     "BlankVarReturn", "TrustedFuncNilable"}}
    \cup {NoVarAssign(v) : v \in VarDecls}
    \cup {VariadicFuncParam(v) : v \in VarDecls}
    \cup {FuncParam(k) : k \in ParamKeys \cup CallSiteParamKeys}
    \cup {MethodRecv(k, v) : k \in RecvKeys, v \in VarDecls}
    \cup {MethodRecvDeep(k, v) : k \in RecvKeys, v \in VarDecls}
    \cup {FldRead(k) : k \in FieldKeys \cup EscapeFieldKeys}
    \cup {ParamFldRead(k) : k \in ParamFieldKeys}
    \cup {FldReturn(k) : k \in RetFieldKeys}
    \cup {FuncReturn(k, g) : k \in RetKeys \cup CallSiteRetKeys, g \in BOOLEAN}
    \cup {MethodReturn(k) : k \in RetKeys}
    \cup {MethodResultReachesInterface(k, a) : k \in RetKeys, a \in AffiliationPairs}
    \cup {InterfaceParamReachesImplementation(k, a) : k \in ParamKeys, a \in AffiliationPairs}
    \cup {GlobalVarRead(k) : k \in GlobalVarKeys}
    \cup {MapRead(k, g) : k \in TypeNameKeys, g \in BOOLEAN}
    \cup {ArrayRead(k) : k \in TypeNameKeys}
    \cup {SliceRead(k) : k \in TypeNameKeys}
    \cup {PtrRead(k) : k \in TypeNameKeys}
    \cup {ChanRecv(k, g) : k \in TypeNameKeys, g \in BOOLEAN}
    \cup {FuncParamDeep(k, g) : k \in ParamKeys, g \in BOOLEAN}
    \cup {VariadicFuncParamDeep(k, g) : k \in ParamKeys, g \in BOOLEAN}
    \cup {FuncReturnDeep(k, g) : k \in RetKeys, g \in BOOLEAN}
    \cup {FldReadDeep(k, g) : k \in FieldKeys, g \in BOOLEAN}
    \cup {LocalVarReadDeep(v, g) : v \in VarDecls, g \in BOOLEAN}
    \cup {GlobalVarReadDeep(k, g) : k \in GlobalVarKeys, g \in BOOLEAN}

(* CheckProduce *)
\* TriggerIfNilable.CheckProduce taking a site the map lacks for nilable
TriggerIfNilable_CheckProduce_Absent(t, m) ==
    LET r == Lookup(t.Ann, m) IN ~r.ok \/ r.ann.IsNilable

TriggerIfNilable_CheckProduce(t, m) ==
    LET r == Lookup(t.Ann, m) IN r.ok /\ r.ann.IsNilable

TriggerIfDeepNilable_CheckProduce_Shallow(t, m) ==
    LET r == Lookup(t.Ann, m) IN r.ok /\ r.ann.IsNilable

TriggerIfDeepNilable_CheckProduce(t, m) ==
    LET r == Lookup(t.Ann, m) IN r.ok /\ r.ann.IsDeepNilable

ProduceTriggerTautology_CheckProduce(t, m) == TRUE

ProduceTriggerNever_CheckProduce_Fires(t, m) == TRUE

ProduceTriggerNever_CheckProduce(t, m) == FALSE

\* no producer type declares CheckProduce: it is always the promoted method of the base
CheckProduce(p, m) ==
    CASE ProducerBase(p.variant) = "TriggerIfNilable" -> TriggerIfNilable_CheckProduce(p, m)
      [] ProducerBase(p.variant) = "TriggerIfDeepNilable" -> TriggerIfDeepNilable_CheckProduce(p, m)
      [] ProducerBase(p.variant) = "ProduceTriggerTautology" -> ProduceTriggerTautology_CheckProduce(p, m)
      [] ProducerBase(p.variant) = "ProduceTriggerNever" -> ProduceTriggerNever_CheckProduce(p, m)

(* Kind and UnderlyingSite: always the promoted methods of the base *)
ProducerKind(p) ==
    CASE ProducerBase(p.variant) = "TriggerIfNilable" -> Conditional
      [] ProducerBase(p.variant) = "TriggerIfDeepNilable" -> DeepConditional
      [] ProducerBase(p.variant) = "ProduceTriggerTautology" -> Always
      [] ProducerBase(p.variant) = "ProduceTriggerNever" -> Never

\* UnderlyingSite looking through GuardMissing to the producer it wraps
ProducerUnderlyingSite_OfWrapped(p) ==
    CASE p.variant = "GuardMissing" /\ ProducerBase(p.OldAnnotation.variant)
                                          \in {"TriggerIfNilable", "TriggerIfDeepNilable"} ->
            p.OldAnnotation.Ann
      [] ProducerBase(p.variant) = "TriggerIfNilable" -> p.Ann
      [] ProducerBase(p.variant) = "TriggerIfDeepNilable" -> p.Ann
      [] OTHER -> NilKey

ProducerUnderlyingSite(p) ==
    CASE ProducerBase(p.variant) = "TriggerIfNilable" -> p.Ann
      [] ProducerBase(p.variant) = "TriggerIfDeepNilable" -> p.Ann
      [] ProducerBase(p.variant) = "ProduceTriggerTautology" -> NilKey
      [] ProducerBase(p.variant) = "ProduceTriggerNever" -> NilKey

(* NeedsGuardMatch *)
TriggerIfNilable_NeedsGuardMatch(t) == FALSE
TriggerIfDeepNilable_NeedsGuardMatch(t) == FALSE
\* a tautology that asks for a guard
ProduceTriggerTautology_NeedsGuardMatch_Always(t) == TRUE
ProduceTriggerTautology_NeedsGuardMatch(t) == FALSE
ProduceTriggerNever_NeedsGuardMatch(t) == FALSE
FuncReturn_NeedsGuardMatch(f) == f.Guarded
MapRead_NeedsGuardMatch(m) == m.NeedsGuard
\* ChanRecv.NeedsGuardMatch never asking for a guard
ChanRecv_NeedsGuardMatch_Never(c) == FALSE
ChanRecv_NeedsGuardMatch(c) == c.NeedsGuard
FuncParamDeep_NeedsGuardMatch(f) == f.NeedsGuard
VariadicFuncParamDeep_NeedsGuardMatch(v) == v.NeedsGuard
FuncReturnDeep_NeedsGuardMatch(f) == f.NeedsGuard
FldReadDeep_NeedsGuardMatch(f) == f.NeedsGuard
\* LocalVarReadDeep without guard semantics
LocalVarReadDeep_NeedsGuardMatch_Never(v) == FALSE
LocalVarReadDeep_NeedsGuardMatch(v) == v.NeedsGuard
GlobalVarReadDeep_NeedsGuardMatch(g) == g.NeedsGuard

\* method dispatch: the type's own method, else the promoted method of the embedded base
NeedsGuardMatch(p) ==
    CASE p.variant = "FuncReturn" -> FuncReturn_NeedsGuardMatch(p)
      [] p.variant = "MapRead" -> MapRead_NeedsGuardMatch(p)
      [] p.variant = "ChanRecv" -> ChanRecv_NeedsGuardMatch(p)
      [] p.variant = "FuncParamDeep" -> FuncParamDeep_NeedsGuardMatch(p)
      [] p.variant = "VariadicFuncParamDeep" -> VariadicFuncParamDeep_NeedsGuardMatch(p)
      [] p.variant = "FuncReturnDeep" -> FuncReturnDeep_NeedsGuardMatch(p)
      [] p.variant = "FldReadDeep" -> FldReadDeep_NeedsGuardMatch(p)
      [] p.variant = "LocalVarReadDeep" -> LocalVarReadDeep_NeedsGuardMatch(p)
      [] p.variant = "GlobalVarReadDeep" -> GlobalVarReadDeep_NeedsGuardMatch(p)
      [] ProducerBase(p.variant) = "TriggerIfNilable" ->
            TriggerIfNilable_NeedsGuardMatch(EmbeddedProducerBase(p))
      [] ProducerBase(p.variant) = "TriggerIfDeepNilable" ->
            TriggerIfDeepNilable_NeedsGuardMatch(EmbeddedProducerBase(p))
      [] ProducerBase(p.variant) = "ProduceTriggerTautology" ->
            ProduceTriggerTautology_NeedsGuardMatch(EmbeddedProducerBase(p))
      [] ProducerBase(p.variant) = "ProduceTriggerNever" ->
            ProduceTriggerNever_NeedsGuardMatch(EmbeddedProducerBase(p))

(* SetNeedsGuard: every method has a value receiver, so it works on a copy *)
\* the receiver t of a base's method is the embedded base struct: 'return t' returns that
TriggerIfNilable_SetNeedsGuard(t, b) == t
TriggerIfDeepNilable_SetNeedsGuard(t, b) == t
ProduceTriggerTautology_SetNeedsGuard(t, b) == t
ProduceTriggerNever_SetNeedsGuard(t, b) == t
FuncReturn_SetNeedsGuard(f, b) == [f EXCEPT !.Guarded = b]
MapRead_SetNeedsGuard(m, b) == [m EXCEPT !.NeedsGuard = b]
ChanRecv_SetNeedsGuard(c, b) == [c EXCEPT !.NeedsGuard = b]
FuncParamDeep_SetNeedsGuard(f, b) == [f EXCEPT !.NeedsGuard = b]
VariadicFuncParamDeep_SetNeedsGuard(v, b) == [v EXCEPT !.NeedsGuard = b]
FuncReturnDeep_SetNeedsGuard(f, b) == [f EXCEPT !.NeedsGuard = b]
FldReadDeep_SetNeedsGuard(f, b) == [f EXCEPT !.NeedsGuard = b]
LocalVarReadDeep_SetNeedsGuard_Unset(v, b) == v
LocalVarReadDeep_SetNeedsGuard(v, b) == [v EXCEPT !.NeedsGuard = b]
GlobalVarReadDeep_SetNeedsGuard(g, b) == [g EXCEPT !.NeedsGuard = b]

SetNeedsGuard(p, b) ==
    CASE p.variant = "FuncReturn" -> FuncReturn_SetNeedsGuard(p, b)
      [] p.variant = "MapRead" -> MapRead_SetNeedsGuard(p, b)
      [] p.variant = "ChanRecv" -> ChanRecv_SetNeedsGuard(p, b)
      [] p.variant = "FuncParamDeep" -> FuncParamDeep_SetNeedsGuard(p, b)
      [] p.variant = "VariadicFuncParamDeep" -> VariadicFuncParamDeep_SetNeedsGuard(p, b)
      [] p.variant = "FuncReturnDeep" -> FuncReturnDeep_SetNeedsGuard(p, b)
      [] p.variant = "FldReadDeep" -> FldReadDeep_SetNeedsGuard(p, b)
      [] p.variant = "LocalVarReadDeep" -> LocalVarReadDeep_SetNeedsGuard(p, b)
      [] p.variant = "GlobalVarReadDeep" -> GlobalVarReadDeep_SetNeedsGuard(p, b)
      [] ProducerBase(p.variant) = "TriggerIfNilable" ->
            TriggerIfNilable_SetNeedsGuard(EmbeddedProducerBase(p), b)
      [] ProducerBase(p.variant) = "TriggerIfDeepNilable" ->
            TriggerIfDeepNilable_SetNeedsGuard(EmbeddedProducerBase(p), b)
      [] ProducerBase(p.variant) = "ProduceTriggerTautology" ->
            ProduceTriggerTautology_SetNeedsGuard(EmbeddedProducerBase(p), b)
      [] ProducerBase(p.variant) = "ProduceTriggerNever" ->
            ProduceTriggerNever_SetNeedsGuard(EmbeddedProducerBase(p), b)

(* Prestring, rendered: Prestring().String(). The backquote of the Go        *)
(* messages is written as an apostrophe.                                   *)
PanicMessage == "panic"

TriggerIfNilable_Prestring(t) == "nilable value"
TriggerIfDeepNilable_Prestring(t) == "deeply nilable value"
ProduceTriggerTautology_Prestring(t) == "nilable value"
ProduceTriggerNever_Prestring(t) == "is not nilable"

FuncParam_Prestring(f) ==
    CASE f.Ann.key = "ParamAnnotationKey" ->
            "function parameter '" \o ParamNameString(f.Ann) \o "'"
      [] f.Ann.key = "CallSiteParamAnnotationKey" ->
            "function parameter '" \o ParamNameString(f.Ann) \o "' at " \o f.Ann.Location
      [] OTHER -> PanicMessage

FldRead_Prestring(f) == "field '" \o f.Ann.FieldDecl \o "'"

FuncReturn_Prestring(f) ==
    CASE f.Ann.key = "RetAnnotationKey" ->
            "result " \o ToString(f.Ann.RetNum) \o " of '" \o f.Ann.FuncDecl \o "()'"
      [] f.Ann.key = "CallSiteRetAnnotationKey" ->
            "result " \o ToString(f.Ann.RetNum) \o " of '" \o f.Ann.FuncDecl \o "()' at "
                \o f.Ann.Location
      [] OTHER -> PanicMessage

\* the Prestring methods of the types whose message only formats names of their fields
SimplePrestring(p) ==
    CASE p.variant = "PositiveNilCheck" -> "determined nil via conditional check"
      [] p.variant = "NegativeNilCheck" -> "determined nonnil via conditional check"
      [] p.variant = "ConstNil" -> "literal 'nil'"
      [] p.variant = "UnassignedFld" -> "uninitialized"
      [] p.variant = "NoVarAssign" -> "unassigned variable '" \o p.VarObj \o "'"
      [] p.variant = "BlankVarReturn" -> "return via a blank variable '_'"
      [] p.variant = "MethodRecv" -> "read by method receiver '" \o p.VarDecl \o "'"
      [] p.variant = "MethodRecvDeep" -> "deep read by method receiver '" \o p.VarDecl \o "'"
      [] p.variant = "VariadicFuncParam" ->
            "read directly from variadic parameter '" \o p.VarDecl \o "'"
      [] p.variant = "TrustedFuncNilable" -> "determined to be nilable by a trusted function"
      [] p.variant = "TrustedFuncNonnil" -> "determined to be nonnil by a trusted function"
      [] p.variant = "ParamFldRead" -> "field '" \o p.Ann.FieldDecl \o "'"
      [] p.variant = "FldReturn" ->
            "field '" \o p.Ann.FieldDecl \o "' of result " \o ToString(p.Ann.RetNum)
                \o " of '" \o p.Ann.FuncDecl \o "()'"
      [] p.variant = "MethodReturn" ->
            "result " \o ToString(p.Ann.RetNum) \o " of '" \o p.Ann.FuncDecl \o "()'"
      [] p.variant = "MethodResultReachesInterface" -> ""
      [] p.variant = "InterfaceParamReachesImplementation" -> ""
      [] p.variant = "GlobalVarRead" -> "global variable '" \o p.Ann.VarDecl \o "'"
      [] p.variant = "MapRead" -> "index of a map of type '" \o p.Ann.TypeDecl \o "'"
      [] p.variant = "ArrayRead" -> "index of an array of type '" \o p.Ann.TypeDecl \o "'"
      [] p.variant = "SliceRead" -> "index of a slice of type '" \o p.Ann.TypeDecl \o "'"
      [] p.variant = "PtrRead" -> "value of a pointer of type '" \o p.Ann.TypeDecl \o "'"
      [] p.variant = "ChanRecv" -> "received from a channel of type '" \o p.Ann.TypeDecl \o "'"
      [] p.variant = "FuncParamDeep" ->
            "deep read from parameter '" \o ParamNameString(p.Ann) \o "'"
      [] p.variant = "VariadicFuncParamDeep" ->
            "index of variadic parameter '" \o ParamNameString(p.Ann) \o "'"
      [] p.variant = "FuncReturnDeep" ->
            "deep read from result " \o ToString(p.Ann.RetNum) \o " of '" \o p.Ann.FuncDecl \o "()'"
      [] p.variant = "FldReadDeep" -> "deep read from field '" \o p.Ann.FieldDecl \o "'"
      [] p.variant = "LocalVarReadDeep" -> "deep read from variable '" \o p.ReadVar \o "'"
      [] p.variant = "GlobalVarReadDeep" ->
            "deep read from global variable '" \o p.Ann.VarDecl \o "'"

\* the producer types that declare no Prestring of their own
NoOwnPrestring ==
    {"ExprOkCheck", "RangeIndexAssignment", "OkReadReflCheck", "RangeOver"} \cup ProducerBases

RECURSIVE ProducerPrestring(_)

GuardMissing_Prestring_Bare(g) == ProducerPrestring(g.OldAnnotation)

GuardMissing_Prestring(g) == ProducerPrestring(g.OldAnnotation) \o " lacking guarding;"

ProducerPrestring(p) ==
    CASE p.variant = "GuardMissing" -> GuardMissing_Prestring(p)
      [] p.variant = "FuncParam" -> FuncParam_Prestring(p)
      [] p.variant = "FldRead" -> FldRead_Prestring(p)
      [] p.variant = "FuncReturn" -> FuncReturn_Prestring(p)
      [] p.variant \in NoOwnPrestring /\ ProducerBase(p.variant) = "TriggerIfNilable" ->
            TriggerIfNilable_Prestring(EmbeddedProducerBase(p))
      [] p.variant \in NoOwnPrestring /\ ProducerBase(p.variant) = "TriggerIfDeepNilable" ->
            TriggerIfDeepNilable_Prestring(EmbeddedProducerBase(p))
      [] p.variant \in NoOwnPrestring /\ ProducerBase(p.variant) = "ProduceTriggerTautology" ->
            ProduceTriggerTautology_Prestring(EmbeddedProducerBase(p))
      [] p.variant \in NoOwnPrestring /\ ProducerBase(p.variant) = "ProduceTriggerNever" ->
            ProduceTriggerNever_Prestring(EmbeddedProducerBase(p))
      [] OTHER -> SimplePrestring(p)

----------------------------------------------------------------------------
(* Consumers: consume_trigger.go *)

ConsumerBase(variant) ==
    CASE variant \in {"UseAsErrorResult", "FldAssign", "ArgFldPass", "GlobalVarAssign", "ArgPass",
                      "RecvPass", "InterfaceResultFromImplementation", "MethodParamFromInterface",
                      "UseAsReturn", "UseAsFldOfReturn", "VariadicParamAssignDeep", "FldEscape",
                      "UseAsNonErrorRetDependentOnErrorRetNilability",
                      "UseAsErrorRetWithNilabilityUnknown"} -> "TriggerIfNonNil"
      [] variant \in {"SliceAssign", "ArrayAssign", "PtrAssign", "MapAssign", "ParamAssignDeep",
                      "FuncRetAssignDeep", "FieldAssignDeep", "GlobalVarAssignDeep",
                      "ChanSend"} -> "TriggerIfDeepNonNil"
      [] variant \in {"PtrLoad", "MapAccess", "MapWrittenTo", "SliceAccess", "FldAccess",
                      "DeepAssignPrimitive", "ChanAccess",
                      "LocalVarAssignDeep"} -> "ConsumeTriggerTautology"

\* *ast.ReturnStmt nodes and the objects a selector can name
RetStmts == {"ret1"}
SelObjects == {[object |-> "Var", name |-> "fld"], [object |-> "Func", name |-> "foo"]}

(* constructors of the catalogue *)
PlainConsumeTautology(variant) == [variant |-> variant]
FldAccess(sel) == [variant |-> "FldAccess", Sel |-> sel]
LocalVarAssignDeep(v) == [variant |-> "LocalVarAssignDeep", LocalVar |-> v]
PlainIfNonNil(variant, k) == [variant |-> variant, Ann |-> k]
PlainIfDeepNonNil(variant, k) == [variant |-> variant, Ann |-> k]
ArgFldPass(k, isPassed) == [variant |-> "ArgFldPass", Ann |-> k, IsPassed |-> isPassed]
WithAffiliation(variant, k, a) == [variant |-> variant, Ann |-> k, AffiliationPair |-> a]
ReturnConsumer(variant, k, named, stmt) ==
    [variant |-> variant, Ann |-> k, IsNamedReturn |-> named, RetStmt |-> stmt]
UseAsReturn(k, named, stmt) == ReturnConsumer("UseAsReturn", k, named, stmt)

\* the consumers the assertion builder constructs
BuiltConsumers ==
    {PlainConsumeTautology(n) : n \in {"PtrLoad", "MapAccess", "MapWrittenTo", "SliceAccess",
                                       "DeepAssignPrimitive", "ChanAccess"}}
    \cup {FldAccess(o) : o \in SelObjects}
    \cup {LocalVarAssignDeep(v) : v \in VarDecls}
    \cup {ReturnConsumer(n, k, named, st) :
            n \in {"UseAsErrorResult", "UseAsNonErrorRetDependentOnErrorRetNilability",
                   "UseAsErrorRetWithNilabilityUnknown"},
            k \in RetKeys, named \in BOOLEAN, st \in RetStmts}
    \cup {UseAsReturn(k, named, st) :
            k \in RetKeys \cup CallSiteRetKeys, named \in BOOLEAN, st \in RetStmts}
    \cup {PlainIfNonNil("FldAssign", k) : k \in FieldKeys}
    \cup {ArgFldPass(k, b) : k \in ParamFieldKeys, b \in BOOLEAN}
    \cup {PlainIfNonNil("GlobalVarAssign", k) : k \in GlobalVarKeys}
    \cup {PlainIfNonNil("ArgPass", k) : k \in ParamKeys \cup CallSiteParamKeys}
    \cup {PlainIfNonNil("RecvPass", k) : k \in RecvKeys}
    \cup {WithAffiliation("InterfaceResultFromImplementation", k, a) :
            k \in RetKeys, a \in AffiliationPairs}
    \cup {WithAffiliation("MethodParamFromInterface", k, a) :
            k \in ParamKeys, a \in AffiliationPairs}
    \cup {PlainIfNonNil("UseAsFldOfReturn", k) : k \in RetFieldKeys}
    \cup {PlainIfNonNil("VariadicParamAssignDeep", k) : k \in ParamKeys}
    \cup {PlainIfNonNil("FldEscape", k) : k \in EscapeFieldKeys}
    \cup {PlainIfDeepNonNil(n, k) :
            n \in {"SliceAssign", "ArrayAssign", "PtrAssign", "MapAssign", "ChanSend"},
            k \in TypeNameKeys}
    \cup {PlainIfDeepNonNil("ParamAssignDeep", k) : k \in ParamKeys}
    \cup {PlainIfDeepNonNil("FuncRetAssignDeep", k) : k \in RetKeys}
    \cup {PlainIfDeepNonNil("FieldAssignDeep", k) : k \in FieldKeys}
    \cup {PlainIfDeepNonNil("GlobalVarAssignDeep", k) : k \in GlobalVarKeys}

(* CheckConsume, Kind, UnderlyingSite: no consumer type declares them itself *)
\* TriggerIfNonNil.CheckConsume reading the deep annotation
TriggerIfNonNil_CheckConsume_Deep(t, m) ==
    LET r == Lookup(t.Ann, m) IN r.ok /\ ~r.ann.IsDeepNilable

TriggerIfNonNil_CheckConsume(t, m) ==
    LET r == Lookup(t.Ann, m) IN r.ok /\ ~r.ann.IsNilable

\* TriggerIfDeepNonNil.CheckConsume reading the shallow annotation
TriggerIfDeepNonNil_CheckConsume_Shallow(t, m) ==
    LET r == Lookup(t.Ann, m) IN r.ok /\ ~r.ann.IsNilable

TriggerIfDeepNonNil_CheckConsume(t, m) ==
    LET r == Lookup(t.Ann, m) IN r.ok /\ ~r.ann.IsDeepNilable

\* ConsumeTriggerTautology.CheckConsume never firing
ConsumeTriggerTautology_CheckConsume_Never(t, m) == FALSE

ConsumeTriggerTautology_CheckConsume(t, m) == TRUE

CheckConsume(c, m) ==
    CASE ConsumerBase(c.variant) = "TriggerIfNonNil" -> TriggerIfNonNil_CheckConsume(c, m)
      [] ConsumerBase(c.variant) = "TriggerIfDeepNonNil" -> TriggerIfDeepNonNil_CheckConsume(c, m)
      [] ConsumerBase(c.variant) = "ConsumeTriggerTautology" ->
            ConsumeTriggerTautology_CheckConsume(c, m)

ConsumerKind(c) ==
    CASE ConsumerBase(c.variant) = "TriggerIfNonNil" -> Conditional
      [] ConsumerBase(c.variant) = "TriggerIfDeepNonNil" -> DeepConditional
      [] ConsumerBase(c.variant) = "ConsumeTriggerTautology" -> Always

ConsumerUnderlyingSite(c) ==
    CASE ConsumerBase(c.variant) = "TriggerIfNonNil" -> c.Ann
      [] ConsumerBase(c.variant) = "TriggerIfDeepNonNil" -> c.Ann
      [] ConsumerBase(c.variant) = "ConsumeTriggerTautology" -> NilKey

(* Positions: node.Pos() of the tracked expressions and return statements, *)
(* as offsets into the file                                                 *)
NodePos(node) ==
    CASE node = "e1" -> 1
      [] node = "e2" -> 2
      [] node = "ret1" -> 3

\* the consumer types that declare customPos themselves
CustomPosVariants ==
    {"UseAsErrorResult", "UseAsReturn", "UseAsNonErrorRetDependentOnErrorRetNilability",
     "UseAsErrorRetWithNilabilityUnknown"}

\* customPos declared by UseAsReturn alone
customPos_UseAsReturnOnly(c) ==
    IF c.variant = "UseAsReturn" /\ c.IsNamedReturn
    THEN [pos |-> NodePos(c.RetStmt), ok |-> TRUE]
    ELSE [pos |-> 0, ok |-> FALSE]

\* customPos: the four return consumers point at the return statement of a named return;
\* every other type has the promoted default of its base
customPos(c) ==
    IF c.variant \in CustomPosVariants /\ c.IsNamedReturn
    THEN [pos |-> NodePos(c.RetStmt), ok |-> TRUE]
    ELSE [pos |-> 0, ok |-> FALSE]

\* ConsumeTrigger.Pos on a trigger value
Pos(c) ==
    LET custom == customPos(c.Annotation) IN
    IF custom.ok THEN custom.pos ELSE NodePos(c.Expr)

----------------------------------------------------------------------------
(* The full trigger (producer, consumer) on its way to the diagnostic      *)
(* pipeline: built, its producer's guard need possibly reset, its guard    *)
(* checked, and the pair evaluated against the inferred annotation map.    *)

Exprs == {"e1", "e2"}

NoCall == [status |-> "none", name |-> "none"]

NoSlices == <<>>

\* the sites whose nilability can matter to the pair
PairSites(orig, prod, cons) ==
    {ProducerUnderlyingSite(orig), ProducerUnderlyingSite(prod), ConsumerUnderlyingSite(cons)}
        \ {NilKey}

InitPair ==
    /\ pc = "built"
    /\ producer \in [Annotation : BuiltProducers, Expr : {"e1"}]
    /\ consumer \in [Annotation : BuiltConsumers, Expr : {"e1"}, Guards : {{}},
                     GuardMatched : BOOLEAN]
    /\ setCall = NoCall
    /\ annMap = EmptyMap
    /\ diag = [status |-> "none"]
    /\ triggers = <<>>
    /\ gsets = <<>>
    /\ slices = NoSlices
    /\ call = NoCall

\* the builder resets the guard need of the producer: p.Annotation.SetNeedsGuard(b)
SetNeedsGuardCall(b) ==
    /\ pc = "built"
    /\ setCall.status = "none"
    /\ LET result == SetNeedsGuard(producer.Annotation, b) IN
        /\ setCall' = [status |-> "called", recv |-> producer.Annotation, arg |-> b,
                       result |-> result]
        /\ producer' = [Annotation |-> result, Expr |-> producer.Expr]
    /\ UNCHANGED <<pc, consumer, annMap, diag>>
    /\ UNCHANGED sliceVars

\* final resolution: a producer that needs a guard the consumer did not match is
\* replaced by GuardMissing wrapping it
ResolveGuardMissing(prod, cons) ==
    IF NeedsGuardMatch(prod.Annotation) /\ ~cons.GuardMatched
    THEN [Annotation |-> GuardMissing(prod.Annotation), Expr |-> prod.Expr]
    ELSE prod

CheckGuardOnFullTrigger ==
    /\ pc = "built"
    /\ pc' = "checked"
    /\ producer' = ResolveGuardMissing(producer, consumer)
    /\ diag' = [status |-> "checked", original |-> producer]
    /\ UNCHANGED <<consumer, setCall, annMap>>
    /\ UNCHANGED sliceVars

\* the diagnostic triggers iff both sides fire against the map
Triggers(prod, cons, m) ==
    CheckProduce(prod.Annotation, m) /\ CheckConsume(cons.Annotation, m)

Report(m) ==
    /\ pc = "checked"
    /\ pc' = "reported"
    /\ annMap' = m
    /\ diag' = [status |-> "reported", original |-> diag.original,
                reported |-> Triggers(producer, consumer, m),
                message |-> IF Triggers(producer, consumer, m)
                            THEN ProducerPrestring(producer.Annotation) ELSE ""]
    /\ UNCHANGED <<producer, consumer, setCall>>
    /\ UNCHANGED sliceVars

NextPair ==
    \/ \E b \in BOOLEAN : SetNeedsGuardCall(b)
    \/ CheckGuardOnFullTrigger
    \/ /\ pc = "checked"
       /\ \E m \in MapsOver(PairSites(diag.original.Annotation, producer.Annotation,
                                      consumer.Annotation)) : Report(m)

Spec == InitPair /\ [][NextPair]_vars

----------------------------------------------------------------------------
(* Consume triggers and their slices: consume_trigger.go.                  *)
(* A *ConsumeTrigger is an address into the heap `triggers`; its Guards    *)
(* field is a util.GuardNonceSet, a Go map, hence an address into the heap *)
(* `gsets`. A slice is a sequence of trigger addresses. An operation takes *)
(* the two heaps T and G and returns them with what it allocated.          *)

(* util.GuardNonceSet *)
\* g.Copy(): a new set with the same nonces
GuardsCopy(G, g) == [G |-> Append(G, G[g]), ref |-> Len(G) + 1]

\* g.Add(guards...): adds to the receiver and returns it
GuardsAdd(G, g, guards) == [G |-> [G EXCEPT ![g] = @ \cup guards], ref |-> g]

\* g.Intersection(h): a new set
GuardsIntersection(G, g, h) == [G |-> Append(G, G[g] \cap G[h]), ref |-> Len(G) + 1]

\* g.Eq(h)
GuardsEq(G, g, h) == G[g] = G[h]

\* reflect.DeepEqual on two consumer annotations: pointers are followed, structs compared
DeepEqual(a, b) == a = b

\* ConsumeTrigger.Eq
Eq(T, G, c, c2) ==
    /\ DeepEqual(T[c].Annotation, T[c2].Annotation)
    /\ T[c].Expr = T[c2].Expr
    /\ GuardsEq(G, T[c].Guards, T[c2].Guards)
    /\ T[c].GuardMatched = T[c2].GuardMatched

\* the test of addToOut, ignoring the expression
Mergeable_AnyExpr(outTrigger, trigger) ==
    DeepEqual(outTrigger.Annotation, trigger.Annotation)

\* the ConsumeTrigger addToOut builds from the two it merges; guards is the address of
\* outTrigger.Guards.Intersection(trigger.Guards). Here GuardMatched is left out.
MergedTrigger_Unmatched(outTrigger, trigger, guards) ==
    [Annotation |-> outTrigger.Annotation,
     Expr |-> outTrigger.Expr,
     Guards |-> guards,
     GuardMatched |-> FALSE]

\* the ConsumeTrigger addToOut builds, with the GuardMatched of the trigger already in out
MergedTrigger_FirstMatched(outTrigger, trigger, guards) ==
    [Annotation |-> outTrigger.Annotation,
     Expr |-> outTrigger.Expr,
     Guards |-> guards,
     GuardMatched |-> outTrigger.GuardMatched]

\* the ConsumeTrigger addToOut builds, matched as soon as one of the two is
MergedTrigger_EitherMatched(outTrigger, trigger, guards) ==
    [Annotation |-> outTrigger.Annotation,
     Expr |-> outTrigger.Expr,
     Guards |-> guards,
     GuardMatched |-> outTrigger.GuardMatched \/ trigger.GuardMatched]

\* the test of addToOut: the two triggers are merged into one
Mergeable(outTrigger, trigger) ==
    /\ DeepEqual(outTrigger.Annotation, trigger.Annotation)
    /\ outTrigger.Expr = trigger.Expr

\* the ConsumeTrigger addToOut builds from the two it merges; guards is the address of
\* outTrigger.Guards.Intersection(trigger.Guards)
MergedTrigger(outTrigger, trigger, guards) ==
    [Annotation |-> outTrigger.Annotation,
     Expr |-> outTrigger.Expr,
     Guards |-> guards,
     GuardMatched |-> outTrigger.GuardMatched /\ trigger.GuardMatched]

\* addToOut appending every trigger
AddToOut_Append(st, trigger) == [st EXCEPT !.out = Append(@, trigger)]

\* addToOut keeping the trigger already in out when the new one is mergeable with it
AddToOut_KeepFirst(st, trigger) ==
    IF \E i \in 1..Len(st.out) : Mergeable(st.T[st.out[i]], st.T[trigger])
    THEN st
    ELSE [st EXCEPT !.out = Append(@, trigger)]

\* the closure addToOut of MergeConsumeTriggerSlices; st = [out, T, G]
AddToOut(st, trigger) ==
    LET hits == {i \in 1..Len(st.out) : Mergeable(st.T[st.out[i]], st.T[trigger])} IN
    IF hits # {}
    THEN LET i == CHOOSE h \in hits : \A h2 \in hits : h <= h2
             outTrigger == st.T[st.out[i]]
             inter == GuardsIntersection(st.G, outTrigger.Guards, st.T[trigger].Guards)
         IN [out |-> [st.out EXCEPT ![i] = Len(st.T) + 1],
             T |-> Append(st.T, MergedTrigger(outTrigger, st.T[trigger], inter.ref)),
             G |-> inter.G]
    ELSE [st EXCEPT !.out = Append(@, trigger)]

RECURSIVE AddAllToOut(_, _, _)
\* for _, l := range slice { addToOut(l) }, from index k on
AddAllToOut(st, slice, k) ==
    IF k > Len(slice) THEN st ELSE AddAllToOut(AddToOut(st, slice[k]), slice, k + 1)

MergeConsumeTriggerSlices(T, G, left, right) ==
    AddAllToOut(AddAllToOut([out |-> <<>>, T |-> T, G |-> G], left, 1), right, 1)

\* the trigger ConsumeTriggerSliceAsGuarded builds, with the guards replacing the trigger's
GuardedTrigger_OnlyNew(T, G, trigger, guards) ==
    [T |-> Append(T, [Annotation |-> trigger.Annotation,
                      Expr |-> trigger.Expr,
                      Guards |-> Len(G) + 1,
                      GuardMatched |-> FALSE]),
     G |-> Append(G, guards)]

\* the trigger ConsumeTriggerSliceAsGuarded builds, with the guards added to the guard set
\* of the trigger itself
GuardedTrigger_InPlace(T, G, trigger, guards) ==
    LET added == GuardsAdd(G, trigger.Guards, guards)
    IN [T |-> Append(T, [Annotation |-> trigger.Annotation,
                         Expr |-> trigger.Expr,
                         Guards |-> added.ref,
                         GuardMatched |-> FALSE]),
        G |-> added.G]

\* the trigger ConsumeTriggerSliceAsGuarded builds, with GuardMatched copied as well
GuardedTrigger_Matched(T, G, trigger, guards) ==
    LET copy == GuardsCopy(G, trigger.Guards)
        added == GuardsAdd(copy.G, copy.ref, guards)
    IN [T |-> Append(T, [Annotation |-> trigger.Annotation,
                         Expr |-> trigger.Expr,
                         Guards |-> added.ref,
                         GuardMatched |-> trigger.GuardMatched]),
        G |-> added.G]

\* the trigger ConsumeTriggerSliceAsGuarded builds from one of the slice: the struct
\* literal names Annotation, Expr and Guards, so GuardMatched is the zero value
GuardedTrigger(T, G, trigger, guards) ==
    LET copy == GuardsCopy(G, trigger.Guards)
        added == GuardsAdd(copy.G, copy.ref, guards)
    IN [T |-> Append(T, [Annotation |-> trigger.Annotation,
                         Expr |-> trigger.Expr,
                         Guards |-> added.ref,
                         GuardMatched |-> FALSE]),
        G |-> added.G]

RECURSIVE AsGuardedFrom(_, _, _, _)
\* the loop of ConsumeTriggerSliceAsGuarded, from index k on; st = [out, T, G]
AsGuardedFrom(st, slice, guards, k) ==
    IF k > Len(slice) THEN st
    ELSE LET new == GuardedTrigger(st.T, st.G, st.T[slice[k]], guards)
         IN AsGuardedFrom([out |-> Append(st.out, Len(new.T)), T |-> new.T, G |-> new.G],
                          slice, guards, k + 1)

ConsumeTriggerSliceAsGuarded(T, G, slice, guards) ==
    AsGuardedFrom([out |-> <<>>, T |-> T, G |-> G], slice, guards, 1)

\* ConsumeTriggerSlicesEq without its comparison of the lengths
ConsumeTriggerSlicesEq_NoLen(T, G, left, right) ==
    \A l \in 1..Len(left) : \E r \in 1..Len(right) : Eq(T, G, left[l], right[r])

ConsumeTriggerSlicesEq(T, G, left, right) ==
    IF Len(left) # Len(right) THEN FALSE
    ELSE \A l \in 1..Len(left) : \E r \in 1..Len(right) : Eq(T, G, left[l], right[r])

----------------------------------------------------------------------------
(* The slice operations applied to slices the assertion builder holds *)

\* bounds on the lengths of the slices drawn as inputs
MaxLeft == 2
MaxRight == 1
MaxGuarded == 2
MaxEqLen == 2

Nonces == {"g1", "g2"}

SeqsUpTo(S, n) == UNION {[1..k -> S] : k \in 0..n}

\* a consume trigger by value: its guard set in place of the set's address
TriggerValue(T, G, c) ==
    [Annotation |-> T[c].Annotation, Expr |-> T[c].Expr, Guards |-> G[T[c].Guards],
     GuardMatched |-> T[c].GuardMatched]

SliceValues(T, G, slice) == [i \in 1..Len(slice) |-> TriggerValue(T, G, slice[i])]

\* the heaps holding one object, with a guard set of its own, per trigger value
HeapOf(values) ==
    [T |-> [i \in 1..Len(values) |->
                [Annotation |-> values[i].Annotation, Expr |-> values[i].Expr,
                 Guards |-> i, GuardMatched |-> values[i].GuardMatched]],
     G |-> [i \in 1..Len(values) |-> values[i].Guards]]

Range(lo, n) == [i \in 1..n |-> lo + i]

NoPair == [status |-> "none"]

PairIdle ==
    /\ producer = NoPair
    /\ consumer = NoPair
    /\ setCall = NoCall
    /\ annMap = EmptyMap
    /\ diag = [status |-> "none"]

PtrLoad == PlainConsumeTautology("PtrLoad")
ArgPass(k) == PlainIfNonNil("ArgPass", k)

\* the (consumer, expression) pairs of the triggers drawn for a merge
MergeSites ==
    {<<PtrLoad, "e1">>, <<PtrLoad, "e2">>, <<ArgPass(ParamAnnotationKey("foo", 0)), "e1">>}

\* the triggers drawn for a merge: every guard set and GuardMatched on the first site,
\* a guarded, matched trigger and an unguarded, unmatched one on the others
MergeTriggers ==
    {[Annotation |-> s[1], Expr |-> s[2], Guards |-> g, GuardMatched |-> m] :
        s \in {<<PtrLoad, "e1">>}, g \in SUBSET {"g1"}, m \in BOOLEAN}
    \cup
    {[Annotation |-> s[1], Expr |-> s[2], Guards |-> IF m THEN {"g1"} ELSE {}, GuardMatched |-> m] :
        s \in MergeSites, m \in BOOLEAN}

InitMerge ==
    /\ pc = "inputs"
    /\ PairIdle
    /\ \E l \in SeqsUpTo(MergeTriggers, MaxLeft), r \in SeqsUpTo(MergeTriggers, MaxRight) :
          /\ triggers = HeapOf(l \o r).T
          /\ gsets = HeapOf(l \o r).G
          /\ slices = <<Range(0, Len(l)), Range(Len(l), Len(r))>>
    /\ call = NoCall

\* out := MergeConsumeTriggerSlices(slices[i], slices[j])
MergeCall(i, j) ==
    /\ pc = "inputs"
    /\ pc' = "done"
    /\ LET st == MergeConsumeTriggerSlices(triggers, gsets, slices[i], slices[j]) IN
        /\ triggers' = st.T
        /\ gsets' = st.G
        /\ slices' = Append(slices, st.out)
        /\ call' = [name |-> "Merge", left |-> i, right |-> j, out |-> Len(slices) + 1,
                    T |-> triggers, G |-> gsets]
    /\ UNCHANGED pairVars

\* the left slice is joined with the right slice or with itself
NextMerge == \E j \in 1..Len(slices) : MergeCall(1, j)

SpecMerge == InitMerge /\ [][NextMerge]_vars

GuardedTriggers ==
    [Annotation : {PtrLoad, ArgPass(ParamAnnotationKey("foo", 0))}, Expr : {"e1"},
     Guards : SUBSET Nonces, GuardMatched : BOOLEAN]

InitGuarded ==
    /\ pc = "inputs"
    /\ PairIdle
    /\ \E s \in SeqsUpTo(GuardedTriggers, MaxGuarded) :
          /\ triggers = HeapOf(s).T
          /\ gsets = HeapOf(s).G
          /\ slices = <<Range(0, Len(s))>>
    /\ call = NoCall

\* out := ConsumeTriggerSliceAsGuarded(slices[i], guards...)
AsGuardedCall(i, guards) ==
    /\ pc = "inputs"
    /\ pc' = "done"
    /\ LET st == ConsumeTriggerSliceAsGuarded(triggers, gsets, slices[i], guards) IN
        /\ triggers' = st.T
        /\ gsets' = st.G
        /\ slices' = Append(slices, st.out)
        /\ call' = [name |-> "AsGuarded", slice |-> i, guards |-> guards,
                    out |-> Len(slices) + 1, T |-> triggers, G |-> gsets]
    /\ UNCHANGED pairVars

NextGuarded == \E i \in 1..Len(slices), guards \in SUBSET Nonces : AsGuardedCall(i, guards)

SpecGuarded == InitGuarded /\ [][NextGuarded]_vars

\* triggers that differ from the first in exactly one of the four things Eq compares
EqTriggers ==
    {[Annotation |-> PtrLoad, Expr |-> "e1", Guards |-> {}, GuardMatched |-> FALSE],
     [Annotation |-> ArgPass(ParamAnnotationKey("foo", 0)), Expr |-> "e1", Guards |-> {},
      GuardMatched |-> FALSE],
     [Annotation |-> PtrLoad, Expr |-> "e2", Guards |-> {}, GuardMatched |-> FALSE],
     [Annotation |-> PtrLoad, Expr |-> "e1", Guards |-> {"g1"}, GuardMatched |-> FALSE],
     [Annotation |-> PtrLoad, Expr |-> "e1", Guards |-> {}, GuardMatched |-> TRUE]}

\* the precondition of ConsumeTriggerSlicesEq: no two triggers of the slice are Eq
NoDuplicates(values) == \A i, j \in 1..Len(values) : values[i] = values[j] => i = j

EqSlices == {s \in SeqsUpTo(EqTriggers, MaxEqLen) : NoDuplicates(s)}

InitEq ==
    /\ pc = "inputs"
    /\ PairIdle
    /\ \E a \in EqSlices, b \in EqSlices, c \in EqSlices :
          /\ triggers = HeapOf(a \o b \o c).T
          /\ gsets = HeapOf(a \o b \o c).G
          /\ slices = <<Range(0, Len(a)), Range(Len(a), Len(b)), Range(Len(a) + Len(b), Len(c))>>
    /\ call = NoCall

\* the fixpoint driver compares the slices it holds, each with each
SlicesEqCall ==
    /\ pc = "inputs"
    /\ pc' = "done"
    /\ call' = [name |-> "SlicesEq",
                eq |-> [i \in 1..Len(slices) |-> [j \in 1..Len(slices) |->
                          ConsumeTriggerSlicesEq(triggers, gsets, slices[i], slices[j])]]]
    /\ UNCHANGED <<triggers, gsets, slices>>
    /\ UNCHANGED pairVars

NextEq == SlicesEqCall

SpecEq == InitEq /\ [][NextEq]_vars

----------------------------------------------------------------------------
(* Call-site duplication: DuplicateParamProducer and DuplicateReturnConsumer *)

\* a failed type assertion
Panic == [status |-> "panic"]

\* DuplicateParamProducer keeping the declaration-site key
DuplicateParamProducer_SameKey(t, location) ==
    IF t.Annotation.variant = "FuncParam" /\ t.Annotation.Ann.key = "ParamAnnotationKey"
    THEN [status |-> "ok", trigger |-> [Annotation |-> FuncParam(t.Annotation.Ann), Expr |-> t.Expr]]
    ELSE Panic

\* DuplicateParamProducer: t.Annotation.(FuncParam) and Ann.(ParamAnnotationKey) panic on
\* any other type
DuplicateParamProducer(t, location) ==
    IF t.Annotation.variant = "FuncParam" /\ t.Annotation.Ann.key = "ParamAnnotationKey"
    THEN LET key == t.Annotation.Ann IN
         [status |-> "ok",
          trigger |-> [Annotation |-> FuncParam(NewCallSiteParamKey(key.FuncDecl, key.ParamNum,
                                                                    location)),
                       Expr |-> t.Expr]]
    ELSE Panic

\* DuplicateReturnConsumer keying every duplicate by one and the same location
DuplicateReturnConsumer_OneSite(T, G, t, location) ==
    LET ann == T[t].Annotation IN
    IF ann.variant = "UseAsReturn" /\ ann.Ann.key = "RetAnnotationKey"
    THEN LET copy == GuardsCopy(G, T[t].Guards) IN
         [status |-> "ok",
          T |-> Append(T, [Annotation |-> UseAsReturn(NewCallSiteRetKey(ann.Ann.FuncDecl,
                                                          ann.Ann.RetNum, "a.go:7:3"),
                                                      ann.IsNamedReturn, ann.RetStmt),
                           Expr |-> T[t].Expr,
                           Guards |-> copy.ref,
                           GuardMatched |-> T[t].GuardMatched]),
          G |-> copy.G,
          ref |-> Len(T) + 1]
    ELSE [status |-> "panic", T |-> T, G |-> G]

\* DuplicateReturnConsumer taking a consumer over any return key
DuplicateReturnConsumer_AnyKey(T, G, t, location) ==
    LET ann == T[t].Annotation IN
    IF ann.variant = "UseAsReturn"
    THEN LET copy == GuardsCopy(G, T[t].Guards) IN
         [status |-> "ok",
          T |-> Append(T, [Annotation |-> UseAsReturn(NewCallSiteRetKey(ann.Ann.FuncDecl,
                                                          ann.Ann.RetNum, location),
                                                      ann.IsNamedReturn, ann.RetStmt),
                           Expr |-> T[t].Expr,
                           Guards |-> copy.ref,
                           GuardMatched |-> T[t].GuardMatched]),
          G |-> copy.G,
          ref |-> Len(T) + 1]
    ELSE [status |-> "panic", T |-> T, G |-> G]

\* DuplicateReturnConsumer sharing the guard set of t
DuplicateReturnConsumer_Shared(T, G, t, location) ==
    LET ann == T[t].Annotation IN
    IF ann.variant = "UseAsReturn" /\ ann.Ann.key = "RetAnnotationKey"
    THEN [status |-> "ok",
          T |-> Append(T, [Annotation |-> UseAsReturn(NewCallSiteRetKey(ann.Ann.FuncDecl,
                                                          ann.Ann.RetNum, location),
                                                      ann.IsNamedReturn, ann.RetStmt),
                           Expr |-> T[t].Expr,
                           Guards |-> T[t].Guards,
                           GuardMatched |-> T[t].GuardMatched]),
          G |-> G,
          ref |-> Len(T) + 1]
    ELSE [status |-> "panic", T |-> T, G |-> G]

\* DuplicateReturnConsumer on the trigger at address t: t.Annotation.(*UseAsReturn) and
\* Ann.(*RetAnnotationKey) panic on any other type
DuplicateReturnConsumer(T, G, t, location) ==
    LET ann == T[t].Annotation IN
    IF ann.variant = "UseAsReturn" /\ ann.Ann.key = "RetAnnotationKey"
    THEN LET copy == GuardsCopy(G, T[t].Guards) IN
         [status |-> "ok",
          T |-> Append(T, [Annotation |-> UseAsReturn(NewCallSiteRetKey(ann.Ann.FuncDecl,
                                                          ann.Ann.RetNum, location),
                                                      ann.IsNamedReturn, ann.RetStmt),
                           Expr |-> T[t].Expr,
                           Guards |-> copy.ref,
                           GuardMatched |-> T[t].GuardMatched]),
          G |-> copy.G,
          ref |-> Len(T) + 1]
    ELSE [status |-> "panic", T |-> T, G |-> G]

\* the consume triggers handed to DuplicateReturnConsumer
DuplicateConsumers ==
    {UseAsReturn(k, named, st) :
        k \in RetKeys \cup CallSiteRetKeys, named \in BOOLEAN, st \in RetStmts}
    \cup {ReturnConsumer(n, k, named, st) :
            n \in CustomPosVariants \ {"UseAsReturn"},
            k \in RetKeys, named \in BOOLEAN, st \in RetStmts}
    \cup {PlainIfNonNil("UseAsFldOfReturn", k) : k \in RetFieldKeys}
    \cup {PtrLoad}

\* the produce triggers handed to DuplicateParamProducer
DuplicateProducers ==
    {FuncParam(k) : k \in ParamKeys \cup CallSiteParamKeys}
    \cup {TriggerIfNilable(k) : k \in ParamKeys}
    \cup {VariadicFuncParam(v) : v \in VarDecls}

InitDuplicate ==
    /\ pc = "inputs"
    /\ producer \in [Annotation : DuplicateProducers, Expr : Exprs]
    /\ consumer = NoPair
    /\ setCall = NoCall
    /\ annMap = EmptyMap
    /\ diag = [status |-> "none"]
    /\ \E t \in [Annotation : DuplicateConsumers, Expr : Exprs, Guards : SUBSET Nonces,
                 GuardMatched : BOOLEAN] :
          /\ triggers = HeapOf(<<t>>).T
          /\ gsets = HeapOf(<<t>>).G
    /\ slices = <<<<1>>>>
    /\ call = NoCall

\* dup := DuplicateParamProducer(producer, location)
DuplicateParamCall(location) ==
    /\ setCall.status = "none"
    /\ setCall' = [status |-> "called", name |-> "DuplicateParamProducer", recv |-> producer,
                   location |-> location,
                   result |-> DuplicateParamProducer(producer, location)]
    /\ UNCHANGED <<pc, producer, consumer, annMap, diag>>
    /\ UNCHANGED sliceVars

\* dup := DuplicateReturnConsumer(slices[1][1], location); a duplicate joins a slice of
\* its own
DuplicateReturnCall(location) ==
    /\ call.name = "none"
    /\ LET st == DuplicateReturnConsumer(triggers, gsets, slices[1][1], location) IN
        /\ triggers' = st.T
        /\ gsets' = st.G
        /\ slices' = IF st.status = "ok" THEN Append(slices, <<st.ref>>) ELSE slices
        /\ call' = [name |-> "DuplicateReturnConsumer", status |-> st.status,
                    t |-> slices[1][1], location |-> location, T |-> triggers, G |-> gsets]
    /\ UNCHANGED pc
    /\ UNCHANGED pairVars

NextDuplicate ==
    \/ \E location \in Locations : DuplicateParamCall(location)
    \/ \E location \in Locations : DuplicateReturnCall(location)

SpecDuplicate == InitDuplicate /\ [][NextDuplicate]_vars

----------------------------------------------------------------------------
(* Call sites: a function with a contract is called at several places, and *)
(* its parameter producer and return consumer are duplicated for each call. *)

MaxCalls == 2

InitCallSites ==
    /\ pc = ToString(0)
    /\ producer \in [Annotation : {FuncParam(k) : k \in ParamKeys}, Expr : Exprs]
    /\ consumer = NoPair
    /\ setCall = NoCall
    /\ annMap = EmptyMap
    /\ diag = [status |-> "none", calls |-> <<>>]
    /\ \E t \in [Annotation : {UseAsReturn(k, named, st) :
                                  k \in RetKeys, named \in BOOLEAN, st \in RetStmts},
                 Expr : Exprs, Guards : {{}, {"g1"}}, GuardMatched : BOOLEAN] :
          /\ triggers = HeapOf(<<t>>).T
          /\ gsets = HeapOf(<<t>>).G
    /\ slices = <<<<1>>>>
    /\ call = NoCall

\* the call at location: both triggers of the callee are duplicated for it
CallSiteDuplicate(location) ==
    /\ \E k \in 0..(MaxCalls - 1) : pc = ToString(k) /\ pc' = ToString(k + 1)
    /\ LET p == DuplicateParamProducer(producer, location)
           st == DuplicateReturnConsumer(triggers, gsets, slices[1][1], location)
       IN /\ triggers' = st.T
          /\ gsets' = st.G
          /\ slices' = Append(slices, <<st.ref>>)
          /\ diag' = [diag EXCEPT !.calls = Append(@, [location |-> location,
                                                        producer |-> p.trigger,
                                                        consumer |-> st.ref])]
          /\ setCall' = [status |-> "called", name |-> "DuplicateParamProducer",
                         recv |-> producer, location |-> location, result |-> p]
          /\ call' = [name |-> "DuplicateReturnConsumer", status |-> st.status,
                      t |-> slices[1][1], location |-> location, T |-> triggers, G |-> gsets]
    /\ UNCHANGED <<producer, consumer, annMap>>

NextCallSites == \E location \in Locations : CallSiteDuplicate(location)

SpecCallSites == InitCallSites /\ [][NextCallSites]_vars

----------------------------------------------------------------------------
(* The engine: the operations applied one after another to triggers that   *)
(* slices share.                                                           *)

MaxSteps == 2

\* the triggers the engine starts from: a guarded, matched and an unguarded, unmatched
\* trigger for a dereference and for a return
EngineTriggers ==
    {[Annotation |-> a, Expr |-> "e1", Guards |-> IF m THEN {"g1"} ELSE {}, GuardMatched |-> m] :
        a \in {PtrLoad, UseAsReturn(RetAnnotationKey("foo", 0), FALSE, "ret1")},
        m \in BOOLEAN}

\* two slices over the two triggers of the heap: sharing one, disjoint, sharing both
EngineSlices == {<<<<1, 2>>, <<1>>>>, <<<<1>>, <<2>>>>, <<<<1, 2>>, <<2, 1>>>>}

EngineProducers ==
    {FuncParam(ParamAnnotationKey("foo", 0)), MapRead(TypeNameAnnotationKey("T"), TRUE)}

InitEngine ==
    /\ pc = ToString(0)
    /\ producer \in [Annotation : EngineProducers, Expr : {"e1"}]
    /\ consumer = NoPair
    /\ setCall = NoCall
    /\ annMap = EmptyMap
    /\ diag = [status |-> "none"]
    /\ \E a \in EngineTriggers, b \in EngineTriggers :
          /\ triggers = HeapOf(<<a, b>>).T
          /\ gsets = HeapOf(<<a, b>>).G
    /\ slices \in EngineSlices
    /\ call = NoCall

\* one more operation, while the engine has operations left
EngineStep ==
    \E k \in 0..(MaxSteps - 1) : pc = ToString(k) /\ pc' = ToString(k + 1)

EngineAsGuarded(i, guards) ==
    /\ EngineStep
    /\ LET st == ConsumeTriggerSliceAsGuarded(triggers, gsets, slices[i], guards) IN
        /\ triggers' = st.T
        /\ gsets' = st.G
        /\ slices' = Append(slices, st.out)
        /\ call' = [name |-> "AsGuarded", slice |-> i, guards |-> guards,
                    out |-> Len(slices) + 1, T |-> triggers, G |-> gsets]
    /\ UNCHANGED pairVars

EngineMerge(i, j) ==
    /\ EngineStep
    /\ LET st == MergeConsumeTriggerSlices(triggers, gsets, slices[i], slices[j]) IN
        /\ triggers' = st.T
        /\ gsets' = st.G
        /\ slices' = Append(slices, st.out)
        /\ call' = [name |-> "Merge", left |-> i, right |-> j, out |-> Len(slices) + 1,
                    T |-> triggers, G |-> gsets]
    /\ UNCHANGED pairVars

\* the engine duplicates return consumers over declaration-site keys only
EngineDuplicateReturn(t, location) ==
    /\ EngineStep
    /\ triggers[t].Annotation.variant = "UseAsReturn"
    /\ triggers[t].Annotation.Ann.key = "RetAnnotationKey"
    /\ LET st == DuplicateReturnConsumer(triggers, gsets, t, location) IN
        /\ triggers' = st.T
        /\ gsets' = st.G
        /\ slices' = Append(slices, <<st.ref>>)
        /\ call' = [name |-> "DuplicateReturnConsumer", status |-> st.status, t |-> t,
                    location |-> location, out |-> Len(slices) + 1,
                    T |-> triggers, G |-> gsets]
    /\ UNCHANGED pairVars

\* q := producer.Annotation.SetNeedsGuard(b): the method has a value receiver
EngineSetNeedsGuard(b) ==
    /\ EngineStep
    /\ setCall' = [status |-> "called", name |-> "SetNeedsGuard", recv |-> producer.Annotation,
                   arg |-> b, result |-> SetNeedsGuard(producer.Annotation, b)]
    /\ UNCHANGED <<producer, consumer, annMap, diag>>
    /\ UNCHANGED sliceVars

EngineDuplicateParam(location) ==
    /\ EngineStep
    /\ producer.Annotation.variant = "FuncParam"
    /\ setCall' = [status |-> "called", name |-> "DuplicateParamProducer", recv |-> producer,
                   location |-> location,
                   result |-> DuplicateParamProducer(producer, location)]
    /\ UNCHANGED <<producer, consumer, annMap, diag>>
    /\ UNCHANGED sliceVars

NextEngine ==
    \/ \E i \in 1..Len(slices) : EngineAsGuarded(i, {"g2"})
    \/ \E i, j \in 1..Len(slices) : i <= j /\ EngineMerge(i, j)
    \/ \E t \in 1..Len(triggers) : EngineDuplicateReturn(t, "a.go:7:3")
    \/ \E b \in BOOLEAN : EngineSetNeedsGuard(b)
    \/ EngineDuplicateParam("a.go:7:3")

SpecEngine == InitEngine /\ [][NextEngine]_vars

----------------------------------------------------------------------------
(* A join on the way to a producer: the triggers of two branches are       *)
(* merged, and a merged trigger reaches the producer of its expression.    *)

MaxBranch == 1

\* the triggers of a branch: a dereference in every state of guarding, and an argument
JoinTriggers ==
    {[Annotation |-> PtrLoad, Expr |-> "e1", Guards |-> g, GuardMatched |-> m] :
        g \in SUBSET {"g1"}, m \in BOOLEAN}
    \cup {[Annotation |-> ArgPass(ParamAnnotationKey("foo", 0)), Expr |-> "e1",
           Guards |-> {}, GuardMatched |-> FALSE]}

JoinProducers ==
    {MapRead(TypeNameAnnotationKey("T"), TRUE), FuncReturn(RetAnnotationKey("foo", 0), TRUE),
     FuncParam(ParamAnnotationKey("foo", 0))}

InitJoin ==
    /\ pc = "inputs"
    /\ producer \in [Annotation : JoinProducers, Expr : {"e1"}]
    /\ consumer = NoPair
    /\ setCall = NoCall
    /\ annMap = EmptyMap
    /\ diag = [status |-> "none"]
    /\ \E l \in SeqsUpTo(JoinTriggers, MaxBranch), r \in SeqsUpTo(JoinTriggers, MaxBranch) :
          /\ triggers = HeapOf(l \o r).T
          /\ gsets = HeapOf(l \o r).G
          /\ slices = <<Range(0, Len(l)), Range(Len(l), Len(r))>>
    /\ call = NoCall

\* the k-th trigger of the merged slice reaches the producer of its expression
ReachProducer(k) ==
    /\ pc = "done"
    /\ pc' = "built"
    /\ consumer' = TriggerValue(triggers, gsets, slices[call.out][k])
    /\ UNCHANGED <<producer, setCall, annMap, diag>>
    /\ UNCHANGED sliceVars

NextJoin ==
    \/ MergeCall(1, 2)
    \/ /\ pc = "done"
       /\ \E k \in 1..Len(slices[call.out]) : ReachProducer(k)
    \/ CheckGuardOnFullTrigger
    \/ /\ pc = "checked"
       /\ \E m \in MapsOver(PairSites(diag.original.Annotation, producer.Annotation,
                                      consumer.Annotation)) : Report(m)

SpecJoin == InitJoin /\ [][NextJoin]_vars

----------------------------------------------------------------------------
(* Backpropagation along a path: a guard-requiring statement (v, err :=    *)
(* f(); v, ok := m[k]; v, ok := <-ch), the checks after it, and a           *)
(* consumption of v. The trigger of the consumption is propagated backwards *)
(* across the checks between it and the statement, and is paired with the  *)
(* producer of the statement.                                              *)

MaxPath == 2

\* the checks of a path: the one tied to the statement, and an unrelated one (on another
\* error variable, or the negative ok check)
Checks == {"check", "other"}

\* the nonce of the rich check effect of a check
NonceOf(node) == IF node = "check" THEN "g1" ELSE "g2"

\* the nonce the statement expects
ExpectedNonce == NonceOf("check")

PathProducers ==
    {FuncReturn(RetAnnotationKey("foo", 0), TRUE), MapRead(TypeNameAnnotationKey("T"), TRUE),
     ChanRecv(TypeNameAnnotationKey("T"), TRUE),
     FuncParamDeep(ParamAnnotationKey("foo", 0), TRUE)}

PathConsumers == {PtrLoad, FldAccess([object |-> "Var", name |-> "fld"])}

\* the trigger arises at the consumption, unguarded; todo holds the checks between the
\* statement and the consumption, in program order
InitPath ==
    /\ pc = "use"
    /\ producer \in [Annotation : PathProducers, Expr : {"e1"}]
    /\ consumer = NoPair
    /\ setCall = NoCall
    /\ annMap = EmptyMap
    /\ diag = [status |-> "none"]
    /\ \E c \in PathConsumers :
          /\ triggers = HeapOf(<<[Annotation |-> c, Expr |-> "e1", Guards |-> {},
                                  GuardMatched |-> FALSE]>>).T
          /\ gsets = <<{}>>
    /\ slices = <<<<1>>>>
    /\ \E between \in SeqsUpTo(Checks, MaxPath) :
          call = [name |-> "Backprop", todo |-> between, crossed |-> <<>>]

\* the triggers of v are propagated across the check nearest to them:
\* ConsumeTriggerSliceAsGuarded with the nonce of the check
CrossCheck ==
    /\ pc = "use"
    /\ call.todo # <<>>
    /\ LET node == call.todo[Len(call.todo)]
           st == ConsumeTriggerSliceAsGuarded(triggers, gsets, slices[Len(slices)],
                                              {NonceOf(node)})
       IN /\ triggers' = st.T
          /\ gsets' = st.G
          /\ slices' = Append(slices, st.out)
          /\ call' = [name |-> "Backprop", todo |-> SubSeq(call.todo, 1, Len(call.todo) - 1),
                      crossed |-> Append(call.crossed, node)]
    /\ UNCHANGED pc
    /\ UNCHANGED pairVars

\* guard match promotion: a trigger whose guards contain the nonce the statement expects
\* is matched
GuardMatchPromotion(c, expected) == [c EXCEPT !.GuardMatched = expected \in c.Guards]

\* the trigger reaches the statement: promotion, and the pair with the producer
AddGuardMatch ==
    /\ pc = "use"
    /\ call.todo = <<>>
    /\ pc' = "built"
    /\ consumer' = GuardMatchPromotion(TriggerValue(triggers, gsets, slices[Len(slices)][1]),
                                       ExpectedNonce)
    /\ UNCHANGED <<producer, setCall, annMap, diag>>
    /\ UNCHANGED sliceVars

NextPath ==
    \/ CrossCheck
    \/ AddGuardMatch
    \/ CheckGuardOnFullTrigger
    \/ /\ pc = "checked"
       /\ \E m \in MapsOver(PairSites(diag.original.Annotation, producer.Annotation,
                                      consumer.Annotation)) : Report(m)

SpecPath == InitPath /\ [][NextPath]_vars

----------------------------------------------------------------------------
(* Properties of the pair pipeline *)

Checked == pc \in {"checked", "reported"}

\* the producer that entered final resolution
Original == diag.original

GuardLacking == NeedsGuardMatch(Original.Annotation) /\ ~consumer.GuardMatched

MapsOfPair == MapsOver(PairSites(Original.Annotation, producer.Annotation, consumer.Annotation))

\* C1: after final resolution of a pair whose producer P needs a guard match and whose
\* consumer has GuardMatched = false, the producer is GuardMissing wrapping P, it fires for
\* every annotation map, and its prestring is P's prestring followed by " lacking guarding;"
C1_GuardMissingFires ==
    (Checked /\ GuardLacking) =>
        /\ producer = [Annotation |-> GuardMissing(Original.Annotation), Expr |-> Original.Expr]
        /\ \A m \in MapsOfPair : CheckProduce(producer.Annotation, m)
        /\ ProducerPrestring(producer.Annotation)
             = ProducerPrestring(Original.Annotation) \o " lacking guarding;"
        /\ (pc = "reported" =>
              diag.reported = CheckConsume(consumer.Annotation, annMap))

\* a resolved and reported pair whose producer P did not fire on the map by itself, but was
\* rewritten and reported
C1_Witness ==
    /\ pc = "reported"
    /\ GuardLacking
    /\ ~CheckProduce(Original.Annotation, annMap)
    /\ producer.Annotation.variant = "GuardMissing"
    /\ diag.reported
    /\ diag.message = "index of a map of type 'T' lacking guarding;"

\* C2: when P needs no guard match or the consumer has GuardMatched = true the producer is
\* left unchanged; in every case the diagnostic is reported iff the resolved producer's
\* CheckProduce and the consumer's CheckConsume are both true on the map; a guard-matched
\* MapRead over a type whose deep annotation is Nonnil, paired with PtrLoad, reports nothing
C2_NoRewriteAndReport ==
    /\ (Checked /\ ~GuardLacking) => producer = Original
    /\ pc = "reported" =>
          diag.reported = (CheckProduce(producer.Annotation, annMap)
                             /\ CheckConsume(consumer.Annotation, annMap))
    /\ (/\ pc = "reported"
        /\ Original.Annotation.variant = "MapRead"
        /\ consumer.GuardMatched
        /\ consumer.Annotation.variant = "PtrLoad"
        /\ Original.Annotation.Ann \in DOMAIN annMap
        /\ ~annMap[Original.Annotation.Ann].IsDeepNilable) => ~diag.reported

\* the guard-matched map read of a deeply nonnil (and shallowly nilable) type, dereferenced
C2_Witness ==
    /\ pc = "reported"
    /\ Original.Annotation = MapRead(TypeNameAnnotationKey("T"), TRUE)
    /\ producer = Original
    /\ consumer.GuardMatched
    /\ consumer.Annotation.variant = "PtrLoad"
    /\ annMap = (TypeNameAnnotationKey("T") :> [IsNilable |-> TRUE, IsDeepNilable |-> FALSE])
    /\ ~diag.reported

\* the field holding the guard flag of a producer type that has one
GuardFlagField(variant) == IF variant = "FuncReturn" THEN "Guarded" ELSE "NeedsGuard"

C9_SetNeedsGuardIdentity ==
    (setCall.status = "called" /\ setCall.recv.variant \notin GuardFlagVariants) =>
        /\ setCall.result = setCall.recv
        /\ ProducerPrestring(setCall.result) = ProducerPrestring(setCall.recv)

\* C10: a producer of kind Always fires on every map and one of kind Never on none; a
\* consumer of kind Always fires on every map
C10_KindDecidesFiring ==
    \A m \in MapsOver(PairSites(producer.Annotation, producer.Annotation, consumer.Annotation)) :
        /\ ProducerKind(producer.Annotation) = Always => CheckProduce(producer.Annotation, m)
        /\ ProducerKind(producer.Annotation) = Never => ~CheckProduce(producer.Annotation, m)
        /\ ConsumerKind(consumer.Annotation) = Always => CheckConsume(consumer.Annotation, m)

\* a LocalVarReadDeep that needs a guard, paired with a guard-matched always-demanding
\* consumer, was evaluated and did not fire
C10_Witness ==
    /\ pc = "reported"
    /\ ConsumerKind(consumer.Annotation) = Always
    /\ consumer.GuardMatched
    /\ producer.Annotation.variant = "LocalVarReadDeep"
    /\ producer.Annotation.NeedsGuard
    /\ ~diag.reported

----------------------------------------------------------------------------
(* Properties of the slice operations *)

\* the slices of the last call, by value: the inputs as they were before the call
InLeft == SliceValues(call.T, call.G, slices[call.left])
InRight == SliceValues(call.T, call.G, slices[call.right])
InSlice == SliceValues(call.T, call.G, slices[call.slice])
Out == SliceValues(triggers, gsets, slices[call.out])

SameSite(a, b) == a.Annotation = b.Annotation /\ a.Expr = b.Expr

Elems(seq) == {seq[i] : i \in 1..Len(seq)}

\* the intersection of a nonempty set of sets
Inter(S) == {x \in UNION S : \A g \in S : x \in g}

\* the triggers of both inputs with the consumer and expression of a
Group(a) == {x \in Elems(InLeft) \cup Elems(InRight) : SameSite(x, a)}

SitesOf(seq) == {<<seq[i].Annotation, seq[i].Expr>> : i \in 1..Len(seq)}

\* the output holds one trigger per (consumer, expression) of the inputs
OnePerSite ==
    /\ SitesOf(Out) = SitesOf(InLeft) \cup SitesOf(InRight)
    /\ Len(Out) = Cardinality(SitesOf(Out))

\* C3, as stated: for a of left and b of right with equal consumer and Expr the output
\* holds exactly one trigger for that (consumer, Expr), with guard set a.Guards \cap b.Guards
\* and GuardMatched = a.GuardMatched /\ b.GuardMatched
C3_MergePairwise ==
    call.name = "Merge" =>
        /\ OnePerSite
        /\ \A a \in Elems(InLeft), b \in Elems(InRight) : SameSite(a, b) =>
              \A o \in Elems(Out) : SameSite(o, a) =>
                  /\ o.Guards = a.Guards \cap b.Guards
                  /\ o.GuardMatched = (a.GuardMatched /\ b.GuardMatched)

\* C3, amended: triggers are merged iff their consumers and Exprs are equal; for a of left
\* and b of right with equal consumer and Expr the output holds exactly one trigger for that
\* (consumer, Expr), whose guard set is the intersection of the guard sets, and whose
\* GuardMatched the conjunction, over all triggers of left and right with that consumer and
\* Expr (a.Guards \cap b.Guards when a and b are the only ones)
C3_MergeGroupwise ==
    call.name = "Merge" =>
        /\ OnePerSite
        /\ \A a \in Elems(InLeft), b \in Elems(InRight) : SameSite(a, b) =>
              \A o \in Elems(Out) : SameSite(o, a) =>
                  /\ o.Guards = Inter({x.Guards : x \in Group(a)})
                  /\ o.GuardMatched = (\A x \in Group(a) : x.GuardMatched)
                  /\ Group(a) = {a, b} =>
                        /\ o.Guards = a.Guards \cap b.Guards
                        /\ o.GuardMatched = (a.GuardMatched /\ b.GuardMatched)

\* left = [a, a2], right = [b], all three with the same consumer and Expr, were merged,
\* and a2 lacks a guard that a and b share
C3_Witness ==
    /\ call.name = "Merge"
    /\ call.left = 1 /\ call.right = 2
    /\ Len(InLeft) = 2 /\ Len(InRight) = 1
    /\ SameSite(InLeft[1], InRight[1]) /\ SameSite(InLeft[2], InRight[1])
    /\ InLeft[1].Guards = {"g1"} /\ InRight[1].Guards = {"g1"} /\ InLeft[2].Guards = {}
    /\ Len(Out) = 1 /\ Out[1].Guards = {}

NoMergeable(seq) == \A i, j \in 1..Len(seq) : SameSite(seq[i], seq[j]) => i = j

\* the two slices hold the same triggers under Eq, and as many
SameUpToOrder(s, t) == Len(s) = Len(t) /\ Elems(s) = Elems(t)

\* C4, as stated: for any slice s, MergeConsumeTriggerSlices(s, s) equals s up to order
C4_MergeIdempotentAny ==
    (call.name = "Merge" /\ call.left = call.right) => SameUpToOrder(Out, InLeft)

\* C4, amended: for any slice s, MergeConsumeTriggerSlices(s, s) holds one trigger per
\* (consumer, Expr) of s, with the intersection of the guard sets and the conjunction of the
\* GuardMatched of the triggers of s with that consumer and Expr; it equals s up to order
\* (same triggers under Eq, same number of them) when s holds no two triggers with equal
\* consumer and Expr
C4_MergeIdempotent ==
    (call.name = "Merge" /\ call.left = call.right) =>
        /\ OnePerSite
        /\ \A o \in Elems(Out) :
              /\ o.Guards = Inter({x.Guards : x \in Group(o)})
              /\ o.GuardMatched = (\A x \in Group(o) : x.GuardMatched)
        /\ NoMergeable(InLeft) => SameUpToOrder(Out, InLeft)

\* a slice of two triggers, one of them guarded and guard-matched, was merged with itself
C4_Witness ==
    /\ call.name = "Merge" /\ call.left = call.right
    /\ Len(InLeft) = 2 /\ NoMergeable(InLeft)
    /\ InLeft[1].GuardMatched /\ InLeft[1].Guards = {"g1"}
    /\ Len(Out) = 2
    /\ slices[call.out] # slices[call.left]

\* C5: the output of ConsumeTriggerSliceAsGuarded(s, g...) has one trigger per trigger of
\* s, in the same order, with the same consumer and Expr and the guard set united with g
C5_AsGuardedAddsGuards ==
    call.name = "AsGuarded" =>
        /\ Len(Out) = Len(InSlice)
        /\ \A i \in 1..Len(InSlice) :
              /\ Out[i].Annotation = InSlice[i].Annotation
              /\ Out[i].Expr = InSlice[i].Expr
              /\ Out[i].Guards = InSlice[i].Guards \cup call.guards

\* a slice of two different triggers, the first guarded by g1 alone, was guarded by g2
C5_Witness ==
    /\ call.name = "AsGuarded"
    /\ Len(InSlice) = 2
    /\ InSlice[1].Annotation # InSlice[2].Annotation
    /\ InSlice[1].Guards = {"g1"}
    /\ call.guards = {"g2"}
    /\ Out[1].Guards = {"g1", "g2"}

EqSlice(i) == SliceValues(triggers, gsets, slices[i])

\* C7: on slices without Eq-duplicates, ConsumeTriggerSlicesEq is true iff the two slices
\* hold the same set of triggers under Eq; it is reflexive, symmetric and transitive
C7_SlicesEqIsSetEquality ==
    call.name = "SlicesEq" =>
        LET I == 1..Len(slices) IN
        /\ \A i, j \in I : call.eq[i][j] = (Elems(EqSlice(i)) = Elems(EqSlice(j)))
        /\ \A i \in I : call.eq[i][i]
        /\ \A i, j \in I : call.eq[i][j] => call.eq[j][i]
        /\ \A i, j, k \in I : (call.eq[i][j] /\ call.eq[j][k]) => call.eq[i][k]

\* three slices were compared: the first two hold the same two triggers in different
\* orders and are equal, the third holds one of the two and is unequal to both
C7_Witness ==
    /\ call.name = "SlicesEq"
    /\ Len(EqSlice(1)) = 2
    /\ EqSlice(2) = <<EqSlice(1)[2], EqSlice(1)[1]>>
    /\ EqSlice(3) = <<EqSlice(1)[1]>>
    /\ call.eq[1][2] /\ call.eq[2][1]
    /\ ~call.eq[1][3] /\ ~call.eq[3][2]

----------------------------------------------------------------------------
(* Properties of firing *)

\* what a map holds for a site: its shallow and its deep nilability
Shallow(k, m) == [ok |-> k \in DOMAIN m, nilable |-> Lookup(k, m).ann.IsNilable]
Deep(k, m) == [ok |-> k \in DOMAIN m, nilable |-> Lookup(k, m).ann.IsDeepNilable]

\* the maps a firing is compared on: over the site and one site foreign to the pair
FiringMaps(site) == MapsOver({site, GlobalVarAnnotationKey("w")})

\* the firing of the producer depends on the part of the map alone, and both results occur
ProducerDecidedBy(Part(_, _)) ==
    LET site == ProducerUnderlyingSite(producer.Annotation) IN
    /\ \A m \in FiringMaps(site) : Part(site, m) = Part(site, annMap) =>
          CheckProduce(producer.Annotation, m) = CheckProduce(producer.Annotation, annMap)
    /\ \E m \in FiringMaps(site) : CheckProduce(producer.Annotation, m)
    /\ \E m \in FiringMaps(site) : ~CheckProduce(producer.Annotation, m)

ConsumerDecidedBy(Part(_, _)) ==
    LET site == ConsumerUnderlyingSite(consumer.Annotation) IN
    /\ \A m \in FiringMaps(site) : Part(site, m) = Part(site, annMap) =>
          CheckConsume(consumer.Annotation, m) = CheckConsume(consumer.Annotation, annMap)
    /\ \E m \in FiringMaps(site) : CheckConsume(consumer.Annotation, m)
    /\ \E m \in FiringMaps(site) : ~CheckConsume(consumer.Annotation, m)

\* C11: the firing of a producer or consumer of kind Conditional is determined solely by
\* the shallow nilability the map holds for its underlying site, and it fires on some map
\* and not on another; for kind DeepConditional it is the deep nilability;
\* VariadicFuncParamDeep and VariadicParamAssignDeep are Conditional
C11_FiringDecidedBySite ==
    pc = "reported" =>
        /\ ProducerKind(producer.Annotation) = Conditional => ProducerDecidedBy(Shallow)
        /\ ProducerKind(producer.Annotation) = DeepConditional => ProducerDecidedBy(Deep)
        /\ ConsumerKind(consumer.Annotation) = Conditional => ConsumerDecidedBy(Shallow)
        /\ ConsumerKind(consumer.Annotation) = DeepConditional => ConsumerDecidedBy(Deep)
        /\ producer.Annotation.variant = "VariadicFuncParamDeep" =>
              ProducerKind(producer.Annotation) = Conditional
        /\ consumer.Annotation.variant = "VariadicParamAssignDeep" =>
              ConsumerKind(consumer.Annotation) = Conditional

\* a VariadicFuncParamDeep met a VariadicParamAssignDeep on a map that holds the parameter
\* shallowly nilable and deeply nonnil: the producer fired, the consumer did not
C11_Witness ==
    /\ pc = "reported"
    /\ producer.Annotation.variant = "VariadicFuncParamDeep"
    /\ consumer.Annotation.variant = "VariadicParamAssignDeep"
    /\ annMap = (ParamAnnotationKey("foo", 0) :> [IsNilable |-> TRUE, IsDeepNilable |-> FALSE])
    /\ CheckProduce(producer.Annotation, annMap)
    /\ ~CheckConsume(consumer.Annotation, annMap)
    /\ ~diag.reported

\* the producer, the consumer depends on a site the map does not hold
ProducerSiteAbsent ==
    /\ ProducerKind(producer.Annotation) \in {Conditional, DeepConditional}
    /\ ProducerUnderlyingSite(producer.Annotation) \notin DOMAIN annMap

ConsumerSiteAbsent ==
    /\ ConsumerKind(consumer.Annotation) \in {Conditional, DeepConditional}
    /\ ConsumerUnderlyingSite(consumer.Annotation) \notin DOMAIN annMap

\* C12: a conditional producer or consumer whose underlying key is absent from the
\* annotation map does not fire (CheckProduce, CheckConsume return false), and no
\* diagnostic is reported for a pair either side of which depends on an absent key
C12_AbsentSiteDoesNotFire ==
    pc = "reported" =>
        /\ ProducerSiteAbsent => ~CheckProduce(producer.Annotation, annMap)
        /\ ConsumerSiteAbsent => ~CheckConsume(consumer.Annotation, annMap)
        /\ (ProducerSiteAbsent \/ ConsumerSiteAbsent) => ~diag.reported

\* a FuncParam met a PtrLoad, which always fires, on a map without the parameter's key
C12_Witness ==
    /\ pc = "reported"
    /\ producer.Annotation = FuncParam(ParamAnnotationKey("foo", 0))
    /\ consumer.Annotation = PtrLoad
    /\ annMap = EmptyMap
    /\ ProducerSiteAbsent
    /\ ~diag.reported /\ diag.message = ""

----------------------------------------------------------------------------
(* Properties of call-site duplication *)

\* the trigger handed to DuplicateReturnConsumer and the duplicate, as heap objects
DupOld == triggers[call.t]
DupNew == triggers[Len(triggers)]

DupReturnCase ==
    /\ call.name = "DuplicateReturnConsumer"
    /\ call.T[call.t].Annotation.variant = "UseAsReturn"
    /\ call.T[call.t].Annotation.Ann.key = "RetAnnotationKey"

\* C13: DuplicateReturnConsumer(t, loc), for t a UseAsReturn over RetKey(func, i), returns
\* a new trigger that is a UseAsReturn over CallSiteRetKey(func, i, loc) with the same
\* Expr, IsNamedReturn, RetStmt and GuardMatched, and a guard set equal to t's that is a
\* set of its own: adding a nonce to either set leaves the other as it was
C13_DuplicateReturnConsumer ==
    DupReturnCase =>
        LET old == call.T[call.t].Annotation IN
        /\ call.status = "ok"
        /\ Len(triggers) = Len(call.T) + 1
        /\ DupNew.Annotation =
              UseAsReturn(NewCallSiteRetKey(old.Ann.FuncDecl, old.Ann.RetNum, call.location),
                          old.IsNamedReturn, old.RetStmt)
        /\ DupNew.Expr = DupOld.Expr
        /\ DupNew.GuardMatched = DupOld.GuardMatched
        /\ gsets[DupNew.Guards] = call.G[call.T[call.t].Guards]
        /\ \A n \in Nonces :
              /\ GuardsAdd(gsets, DupNew.Guards, {n}).G[DupOld.Guards] = gsets[DupOld.Guards]
              /\ GuardsAdd(gsets, DupOld.Guards, {n}).G[DupNew.Guards] = gsets[DupNew.Guards]

\* a guard-matched named return of foo, guarded by g1, was duplicated for a call site
C13_Witness ==
    /\ DupReturnCase
    /\ call.status = "ok"
    /\ call.location = "a.go:9:5"
    /\ DupOld.Annotation = UseAsReturn(RetAnnotationKey("foo", 0), TRUE, "ret1")
    /\ DupOld.Expr = "e2"
    /\ DupOld.GuardMatched
    /\ gsets[DupOld.Guards] = {"g1"}
    /\ DupNew.Annotation = UseAsReturn(NewCallSiteRetKey("foo", 0, "a.go:9:5"), TRUE, "ret1")
    /\ DupNew.Guards # DupOld.Guards

DupParamCase ==
    /\ setCall.status = "called"
    /\ setCall.name = "DuplicateParamProducer"
    /\ setCall.recv.Annotation.variant = "FuncParam"
    /\ setCall.recv.Annotation.Ann.key = "ParamAnnotationKey"

\* the map m with the key dup bound to what m holds for the key decl (to nothing when m
\* holds nothing for decl)
BoundAs(m, dup, decl) ==
    IF decl \in DOMAIN m
    THEN (dup :> m[decl]) @@ m
    ELSE [k \in DOMAIN m \ {dup} |-> m[k]]

\* C14: DuplicateParamProducer(P, loc), for P a FuncParam over ParamKey(func, i), returns a
\* FuncParam over CallSiteParamKey(func, i, loc) with the same Expr, and for any map m,
\* with m2 equal to m plus the call-site key bound to the fact m holds for the
\* declaration-site key, the duplicate's CheckProduce(m2) equals P.CheckProduce(m)
C14_DuplicateParamProducer ==
    DupParamCase =>
        LET P == setCall.recv
            decl == P.Annotation.Ann
            site == NewCallSiteParamKey(decl.FuncDecl, decl.ParamNum, setCall.location)
        IN /\ setCall.result.status = "ok"
           /\ setCall.result.trigger.Annotation = FuncParam(site)
           /\ setCall.result.trigger.Expr = P.Expr
           /\ producer = P
           /\ \A m \in MapsOver({decl, site}) :
                 CheckProduce(setCall.result.trigger.Annotation, BoundAs(m, site, decl))
                     = CheckProduce(P.Annotation, m)

\* the first parameter of foo, tracked in e2, was duplicated for the call at a.go:7:3; the
\* duplicate fires on a map that holds the parameter nilable once the call site is bound
C14_Witness ==
    /\ DupParamCase
    /\ setCall.recv = [Annotation |-> FuncParam(ParamAnnotationKey("foo", 0)), Expr |-> "e2"]
    /\ setCall.location = "a.go:7:3"
    /\ setCall.result.status = "ok"
    /\ ProducerUnderlyingSite(setCall.result.trigger.Annotation)
          = NewCallSiteParamKey("foo", 0, "a.go:7:3")
    /\ LET m == (ParamAnnotationKey("foo", 0) :> [IsNilable |-> TRUE, IsDeepNilable |-> FALSE])
       IN /\ ~CheckProduce(setCall.result.trigger.Annotation, m)
          /\ CheckProduce(setCall.result.trigger.Annotation,
                          BoundAs(m, NewCallSiteParamKey("foo", 0, "a.go:7:3"),
                                  ParamAnnotationKey("foo", 0)))

----------------------------------------------------------------------------
(* Properties of the engine *)

\* every trigger and slice that exists keeps its value over the step
InputsKept ==
    /\ \A c \in 1..Len(triggers) :
          TriggerValue(triggers', gsets', c) = TriggerValue(triggers, gsets, c)
    /\ \A g \in 1..Len(gsets) : gsets'[g] = gsets[g]
    /\ \A i \in 1..Len(slices) : slices'[i] = slices[i]
    /\ producer' = producer
    /\ NeedsGuardMatch(producer'.Annotation) = NeedsGuardMatch(producer.Annotation)

\* C15: no operation (SetNeedsGuard, ConsumeTriggerSliceAsGuarded,
\* MergeConsumeTriggerSlices, DuplicateReturnConsumer, DuplicateParamProducer) modifies
\* its input: every trigger and slice has the same annotation, Expr, guard set,
\* GuardMatched and NeedsGuardMatch after the call as before it, also when a trigger is
\* referenced from several slices, in any interleaving of the calls
C15_InputsNeverModified == [][InputsKept]_vars

\* a trigger two slices share went through ConsumeTriggerSliceAsGuarded in one of them and
\* then through a merge of the other with the guarded slice; it is as it was
C15_Witness ==
    /\ pc = ToString(2)
    /\ slices[1] = <<1, 2>> /\ slices[2] = <<1>>
    /\ Len(slices) = 4
    /\ call.name = "Merge" /\ call.left = 2 /\ call.right = 3
    /\ TriggerValue(triggers, gsets, 1).Guards = {"g1"}
    /\ TriggerValue(triggers, gsets, slices[3][1]).Guards = {"g1", "g2"}
    /\ TriggerValue(triggers, gsets, slices[4][1]).Guards = {"g1"}

\* the duplicate the last DuplicateReturnConsumer call returned, by value
Duplicate == TriggerValue(triggers, gsets, slices[call.out][1])

\* C17: guards weaken only at a join: a nonce of a trigger's guard set is absent from the
\* guard set of the trigger resulting from an engine operation only when the operation is
\* a merge with a mergeable trigger whose guard set lacks the nonce;
\* ConsumeTriggerSliceAsGuarded and DuplicateReturnConsumer yield a superset
C17_GuardsWeakenOnlyAtJoin ==
    /\ call.name = "AsGuarded" =>
          /\ Len(Out) = Len(InSlice)
          /\ \A i \in 1..Len(InSlice) : InSlice[i].Guards \subseteq Out[i].Guards
    /\ call.name = "DuplicateReturnConsumer" =>
          TriggerValue(call.T, call.G, call.t).Guards \subseteq Duplicate.Guards
    /\ call.name = "Merge" =>
          \A a \in Elems(InLeft) \cup Elems(InRight) :
              /\ \E o \in Elems(Out) : SameSite(o, a)
              /\ \A o \in Elems(Out) : SameSite(o, a) =>
                    \A n \in a.Guards \ o.Guards :
                        \E x \in Group(a) : n \notin x.Guards

\* a slice was guarded by g2 and then joined with the slice it came from: the trigger
\* guarded by g1 and g2 results in one guarded by g1 alone
C17_Witness ==
    /\ pc = ToString(2)
    /\ call.name = "Merge"
    /\ \E a \in Elems(InLeft) \cup Elems(InRight) :
          /\ a.Guards = {"g1", "g2"}
          /\ \E o \in Elems(Out) : SameSite(o, a) /\ o.Guards = {"g1"}
          /\ \E x \in Group(a) : x.Guards = {"g1"}

----------------------------------------------------------------------------
(* Properties of guarded producers *)

ChanType == TypeNameAnnotationKey("T")

\* v, ok := <-ch with the dereference of v on the branch where ok was checked
GuardedChanRecv ==
    /\ pc = "reported"
    /\ Original.Annotation = ChanRecv(ChanType, TRUE)
    /\ consumer.Annotation = PtrLoad
    /\ consumer.GuardMatched

DeepNilableChan == ChanType \in DOMAIN annMap /\ annMap[ChanType].IsDeepNilable

\* C16, as stated: for the pair (ChanRecv(TypeKey, needsGuard = true), PtrLoad) with the
\* map {TypeKey: deep = Nilable} and GuardMatched = true, no diagnostic is reported
C16_GuardedChanRecvSilent ==
    (GuardedChanRecv /\ DeepNilableChan) => ~diag.reported

\* C16, amended: for the pair (ChanRecv(TypeKey, needsGuard = true), PtrLoad) with
\* GuardMatched = true the producer is not rewritten to GuardMissing, and a diagnostic is
\* reported iff the map holds TypeKey as deeply nilable (so it is reported for
\* {TypeKey: deep = Nilable}, with the prestring of ChanRecv, and not for deep = Nonnil)
C16_GuardedChanRecvReportsDeep ==
    GuardedChanRecv =>
        /\ producer = Original
        /\ diag.reported = DeepNilableChan
        /\ DeepNilableChan => diag.message = ProducerPrestring(ChanRecv(ChanType, TRUE))

\* the guard-matched receive was evaluated against {TypeKey: deep = Nilable}: reported
C16_Witness ==
    /\ GuardedChanRecv
    /\ annMap = (ChanType :> [IsNilable |-> FALSE, IsDeepNilable |-> TRUE])
    /\ producer.Annotation.variant = "ChanRecv"
    /\ diag.reported
    /\ diag.message = "received from a channel of type 'T'"

----------------------------------------------------------------------------
(* Properties of a join *)

\* the triggers of the two branches for the consumer and expression of c
OnBranches(c) == {x \in Elems(InLeft) \cup Elems(InRight) : SameSite(x, c)}

\* C18: after a join of two branches the trigger for a (consumer, expr) has GuardMatched =
\* true only if every trigger for it on the branches had; a consumption unmatched on one
\* branch reaches a guard-needing producer unmatched, the producer becomes GuardMissing,
\* and the pair is reported as lacking guarding when the consumer fires
C18_GuardMatchedOnEveryPath ==
    /\ call.name = "Merge" =>
          \A o \in Elems(Out) : o.GuardMatched => \A x \in OnBranches(o) : x.GuardMatched
    /\ (pc = "reported" /\ NeedsGuardMatch(Original.Annotation)
            /\ \E x \in OnBranches(consumer) : ~x.GuardMatched) =>
          /\ ~consumer.GuardMatched
          /\ producer.Annotation = GuardMissing(Original.Annotation)
          /\ diag.reported = CheckConsume(consumer.Annotation, annMap)
          /\ diag.reported =>
                diag.message = ProducerPrestring(Original.Annotation) \o " lacking guarding;"

\* a dereference guarded and matched on the left branch and unguarded on the right one
\* reached a guard-needing map read: reported as lacking guarding
C18_Witness ==
    /\ pc = "reported"
    /\ Len(InLeft) = 1 /\ Len(InRight) = 1
    /\ InLeft[1] = [Annotation |-> PtrLoad, Expr |-> "e1", Guards |-> {"g1"},
                    GuardMatched |-> TRUE]
    /\ InRight[1] = [Annotation |-> PtrLoad, Expr |-> "e1", Guards |-> {},
                     GuardMatched |-> FALSE]
    /\ Original.Annotation = MapRead(TypeNameAnnotationKey("T"), TRUE)
    /\ consumer = [Annotation |-> PtrLoad, Expr |-> "e1", Guards |-> {},
                   GuardMatched |-> FALSE]
    /\ diag.reported
    /\ diag.message = "index of a map of type 'T' lacking guarding;"

----------------------------------------------------------------------------
(* Properties of backpropagation along a path *)

\* the checks that stand between the statement and the consumption
Crossed == Elems(call.crossed)

\* the producer was built as needing a guard
GuardNeeding(p) == p.variant \in GuardFlagVariants /\ p[GuardFlagField(p.variant)]

LackingGuarding ==
    /\ producer.Annotation = GuardMissing(Original.Annotation)
    /\ pc = "reported" =>
          /\ diag.reported
          /\ diag.message = ProducerPrestring(Original.Annotation) \o " lacking guarding;"

C20_PromotionNeedsExpectedNonce ==
    (pc \in {"built", "checked", "reported"} /\ call.name = "Backprop") =>
        /\ consumer.Guards = {NonceOf(n) : n \in Crossed}
        /\ consumer.GuardMatched => ExpectedNonce \in consumer.Guards
        /\ consumer.Guards \subseteq {NonceOf("other")} =>
              /\ ~consumer.GuardMatched
              /\ (Checked /\ GuardNeeding(Original.Annotation)) => LackingGuarding

\* c.f, ok = <-ch; c.False(ok); print(*c.f): guarded by the nonce of the negative check
\* alone, the dereference is reported
C20_Witness ==
    /\ pc = "reported"
    /\ call.name = "Backprop" /\ call.crossed = <<"other">>
    /\ Original.Annotation = ChanRecv(TypeNameAnnotationKey("T"), TRUE)
    /\ consumer = [Annotation |-> PtrLoad, Expr |-> "e1", Guards |-> {"g2"},
                   GuardMatched |-> FALSE]
    /\ diag.reported
    /\ diag.message = "received from a channel of type 'T' lacking guarding;"

----------------------------------------------------------------------------
(* Properties of the duplication helpers on other inputs *)

DupParamOther ==
    /\ setCall.status = "called"
    /\ setCall.name = "DuplicateParamProducer"
    /\ ~DupParamCase

DupReturnOther ==
    /\ call.name = "DuplicateReturnConsumer"
    /\ ~DupReturnCase

\* C21: DuplicateParamProducer on a producer that is not a FuncParam over a
\* declaration-site ParamKey (a FuncParam over a CallSiteParamKey included), and
\* DuplicateReturnConsumer on a consumer that is not a UseAsReturn over a declaration-site
\* RetKey (an already duplicated UseAsReturn included), end in a panic and return no
\* trigger: nothing is allocated and no slice receives a duplicate
C21_DuplicateFailsOnOtherInput ==
    /\ DupParamOther =>
          /\ setCall.result = Panic
          /\ producer = setCall.recv
    /\ DupReturnOther =>
          /\ call.status = "panic"
          /\ triggers = call.T
          /\ gsets = call.G
          /\ slices = <<<<call.t>>>>

\* an already duplicated return of foo and a FuncParam already re-keyed to a call site were
\* handed to the helpers, and both calls panicked
C21_Witness ==
    /\ DupReturnOther
    /\ DupOld.Annotation = UseAsReturn(NewCallSiteRetKey("foo", 0, "a.go:7:3"), FALSE, "ret1")
    /\ call.status = "panic"
    /\ DupParamOther
    /\ setCall.recv.Annotation = FuncParam(NewCallSiteParamKey("foo", 0, "a.go:7:3"))
    /\ setCall.result = Panic

----------------------------------------------------------------------------
(* Properties of the underlying site *)

UnconditionalKinds == {Always, Never}
ConditionalKinds == {Conditional, DeepConditional}

\* C22: a producer or consumer of kind Always or Never has no underlying site
\* (UnderlyingSite() is nil), whatever variables, guard flags or wrapped producer it
\* carries; one of kind Conditional or DeepConditional returns its annotation key
C22_UnderlyingSiteByKind ==
    /\ ProducerKind(producer.Annotation) \in UnconditionalKinds =>
          ProducerUnderlyingSite(producer.Annotation) = NilKey
    /\ ProducerKind(producer.Annotation) \in ConditionalKinds =>
          ProducerUnderlyingSite(producer.Annotation) = producer.Annotation.Ann
    /\ ConsumerKind(consumer.Annotation) \in UnconditionalKinds =>
          ConsumerUnderlyingSite(consumer.Annotation) = NilKey
    /\ ConsumerKind(consumer.Annotation) \in ConditionalKinds =>
          ConsumerUnderlyingSite(consumer.Annotation) = consumer.Annotation.Ann

\* a guarded result of a function, unmatched, was rewritten to GuardMissing: the wrapper is
\* of kind Always and has no site though the producer it wraps has one
C22_Witness ==
    /\ Checked
    /\ producer.Annotation.variant = "GuardMissing"
    /\ producer.Annotation.OldAnnotation.variant = "FuncReturn"
    /\ ProducerUnderlyingSite(producer.Annotation.OldAnnotation) # NilKey
    /\ ProducerKind(producer.Annotation) = Always
    /\ ProducerUnderlyingSite(producer.Annotation) = NilKey
    /\ consumer.Annotation.variant = "FldAccess"
    /\ ConsumerUnderlyingSite(consumer.Annotation) = NilKey

----------------------------------------------------------------------------
(* Properties of the position *)

\* the trigger handed to the duplication helper, as it was when the model started
PosInput == triggers[1]

NamedReturn(c) == c.variant \in CustomPosVariants /\ c.IsNamedReturn

\* C23: ConsumeTrigger.Pos() is the custom position when the consumer has one and the
\* position of Expr otherwise; a custom position exists exactly for the four return
\* consumers with IsNamedReturn = true and is the position of the return statement; the
\* duplicate DuplicateReturnConsumer returns has the Pos() of its input
C23_PosOfConsumeTrigger ==
    /\ customPos(PosInput.Annotation).ok <=> NamedReturn(PosInput.Annotation)
    /\ NamedReturn(PosInput.Annotation) =>
          Pos(PosInput) = NodePos(PosInput.Annotation.RetStmt)
    /\ ~NamedReturn(PosInput.Annotation) => Pos(PosInput) = NodePos(PosInput.Expr)
    /\ (DupReturnCase /\ call.status = "ok") => Pos(DupNew) = Pos(DupOld)

\* a named return of foo tracked in e1 was duplicated: input and duplicate are positioned
\* at the return statement and not at the expression
C23_Witness ==
    /\ DupReturnCase
    /\ call.status = "ok"
    /\ DupOld.Annotation.IsNamedReturn
    /\ DupOld.Expr = "e1"
    /\ Pos(DupNew) = NodePos("ret1")
    /\ Pos(DupNew) # NodePos(DupNew.Expr)

----------------------------------------------------------------------------
(* Properties of the merge: what passes through *)

\* the addresses the two inputs of the last merge hold
InputRefs == Elems(slices[call.left]) \cup Elems(slices[call.right])

\* no other trigger of the inputs has the consumer and expression of the one at address t
Alone(t) == \A u \in InputRefs : SameSite(call.T[u], call.T[t]) => u = t

\* C24: a trigger of either input of MergeConsumeTriggerSlices for which no other trigger
\* of left or right has an equal consumer and Expr appears in the output with its guard
\* set and GuardMatched unchanged, and every input trigger is represented in the output by
\* a trigger with the same consumer and Expr whose guard set is a subset of its own
C24_MergePassesThrough ==
    call.name = "Merge" =>
        \A t \in InputRefs :
            LET x == TriggerValue(call.T, call.G, t) IN
            /\ Alone(t) => x \in Elems(Out)
            /\ \E o \in Elems(Out) : SameSite(o, x) /\ o.Guards \subseteq x.Guards

\* left = [a, b] and right = [c], a and c on the same site and b alone on another: b passed
\* through guarded and matched, a and c are represented by one trigger that lost the guard
C24_Witness ==
    /\ call.name = "Merge"
    /\ call.left = 1 /\ call.right = 2
    /\ Len(InLeft) = 2 /\ Len(InRight) = 1
    /\ SameSite(InLeft[1], InRight[1])
    /\ ~SameSite(InLeft[2], InLeft[1])
    /\ InLeft[1].Guards = {"g1"} /\ InRight[1].Guards = {}
    /\ InLeft[2].Guards = {"g1"} /\ InLeft[2].GuardMatched
    /\ Len(Out) = 2
    /\ Out[1].Guards = {}
    /\ Out[2] = InLeft[2]

----------------------------------------------------------------------------
(* Properties of local variables read deeply *)

LocalVarReadDeepPair ==
    /\ Checked
    /\ Original.Annotation.variant = "LocalVarReadDeep"
    /\ ConsumerKind(consumer.Annotation) = Always

\* C25: LocalVarReadDeep never fires on its own (CheckProduce is false for every map, its
\* Kind is Never) and NeedsGuardMatch() returns its NeedsGuard flag, so the pair
\* (LocalVarReadDeep, always-demanding consumer) is reported iff NeedsGuard is true and
\* the consumer's GuardMatched is false, whatever the annotation map
C25_LocalVarReadDeepGuarded ==
    LocalVarReadDeepPair =>
        LET P == Original.Annotation
            lacking == P.NeedsGuard /\ ~consumer.GuardMatched
        IN /\ ProducerKind(P) = Never
           /\ NeedsGuardMatch(P) = P.NeedsGuard
           /\ \A m \in FiringMaps(GlobalVarAnnotationKey("v")) :
                 /\ ~CheckProduce(P, m)
                 /\ Triggers(producer, consumer, m) = lacking
           /\ pc = "reported" => diag.reported = lacking

\* a deep read of a local variable that needs a guard, dereferenced without a matched
\* guard, was reported as lacking guarding
C25_Witness ==
    /\ pc = "reported"
    /\ LocalVarReadDeepPair
    /\ Original.Annotation.NeedsGuard
    /\ consumer.Annotation = PtrLoad
    /\ ~consumer.GuardMatched
    /\ producer.Annotation = GuardMissing(Original.Annotation)
    /\ diag.reported

----------------------------------------------------------------------------
(* Properties of call sites *)

Calls == {diag.calls[i] : i \in 1..Len(diag.calls)}

ParamSite(c) == ProducerUnderlyingSite(c.producer.Annotation)
RetSite(c) == ConsumerUnderlyingSite(triggers[c.consumer].Annotation)

\* the map holding only the site k, as nilable
OnlyNilable(k) == k :> [IsNilable |-> TRUE, IsDeepNilable |-> FALSE]

\* the map holding only the site k, as nonnil
OnlyNonnil(k) == k :> [IsNilable |-> FALSE, IsDeepNilable |-> FALSE]

\* C26: the underlying site of DuplicateParamProducer(P, loc), and of
\* DuplicateReturnConsumer(C, loc), is unequal to the declaration-site key of the
\* original; duplicates made at two different locations have unequal underlying sites and
\* duplicates made at the same location equal ones, so that a map can hold a fact for one
\* call site that it does not hold for another or for the declaration
C26_CallSitesAreDistinct ==
    /\ \A c \in Calls :
          /\ ParamSite(c) # ProducerUnderlyingSite(producer.Annotation)
          /\ RetSite(c) # ConsumerUnderlyingSite(triggers[1].Annotation)
          /\ CheckProduce(c.producer.Annotation, OnlyNilable(ParamSite(c)))
          /\ ~CheckProduce(producer.Annotation, OnlyNilable(ParamSite(c)))
          /\ CheckConsume(triggers[c.consumer].Annotation, OnlyNonnil(RetSite(c)))
          /\ ~CheckConsume(triggers[1].Annotation, OnlyNonnil(RetSite(c)))
    /\ \A c, d \in Calls :
          /\ ParamSite(c) = ParamSite(d) <=> c.location = d.location
          /\ RetSite(c) = RetSite(d) <=> c.location = d.location
          /\ c.location # d.location =>
                /\ ~CheckProduce(d.producer.Annotation, OnlyNilable(ParamSite(c)))
                /\ ~CheckConsume(triggers[d.consumer].Annotation, OnlyNonnil(RetSite(c)))

\* foo was called at a.go:7:3 and at a.go:9:5: the two duplicates of its parameter and of
\* its result are bound to different sites
C26_Witness ==
    /\ Len(diag.calls) = 2
    /\ diag.calls[1].location = "a.go:7:3"
    /\ diag.calls[2].location = "a.go:9:5"
    /\ ParamSite(diag.calls[1]) = NewCallSiteParamKey("foo", 0, "a.go:7:3")
    /\ ParamSite(diag.calls[2]) = NewCallSiteParamKey("foo", 0, "a.go:9:5")
    /\ RetSite(diag.calls[1]) = NewCallSiteRetKey("foo", 0, "a.go:7:3")
    /\ RetSite(diag.calls[2]) = NewCallSiteRetKey("foo", 0, "a.go:9:5")

----------------------------------------------------------------------------
(* Properties of the slices the engine produces *)

\* C27: the output of MergeConsumeTriggerSlices never holds two triggers with equal
\* consumer annotation and equal Expr, whatever the inputs hold (two such triggers of one
\* input are merged with each other), and ConsumeTriggerSliceAsGuarded keeps the property
\* of its input; a slice with the property holds no two triggers that are Eq, which is
\* the precondition of ConsumeTriggerSlicesEq
C27_ProducedSlicesHaveNoDuplicates ==
    /\ call.name = "Merge" => NoMergeable(Out) /\ NoDuplicates(Out)
    /\ call.name = "AsGuarded" =>
          /\ \A i \in 1..Len(Out) : SameSite(Out[i], InSlice[i])
          /\ NoMergeable(InSlice) => NoMergeable(Out) /\ NoDuplicates(Out)

\* a slice holding the same dereference twice was merged with itself into one trigger,
\* and the merged slice was then guarded by g2
C27_Witness ==
    /\ pc = ToString(2)
    /\ Len(slices[1]) = 2
    /\ SameSite(triggers[slices[1][1]], triggers[slices[1][2]])
    /\ Len(slices[3]) = 1
    /\ call.name = "AsGuarded"
    /\ call.slice = 3
    /\ NoMergeable(InSlice)
    /\ Len(Out) = 1
    /\ "g2" \in Out[1].Guards

----------------------------------------------------------------------------
(* Properties of the merge: the order of its arguments *)

\* MergeConsumeTriggerSlices(right, left) on the inputs of the last merge, by value
Swapped ==
    LET st == MergeConsumeTriggerSlices(call.T, call.G, slices[call.right], slices[call.left])
    IN SliceValues(st.T, st.G, st.out)

\* C28: for any slices left and right, merge(left, right) and merge(right, left) hold the
\* same set of triggers under Eq, and as many: for each (consumer, Expr) one trigger whose
\* guard set is the intersection, and whose GuardMatched the conjunction, over all input
\* triggers with that consumer and Expr
C28_MergeCommutes ==
    call.name = "Merge" =>
        /\ SameUpToOrder(Out, Swapped)
        /\ SitesOf(Swapped) = SitesOf(InLeft) \cup SitesOf(InRight)
        /\ \A o \in Elems(Out) \cup Elems(Swapped) :
              /\ o.Guards = Inter({x.Guards : x \in Group(o)})
              /\ o.GuardMatched = (\A x \in Group(o) : x.GuardMatched)

\* left = [a, b] and right = [c] with b and c on one site and a on another: the two orders
\* of the merge give the same two triggers in different order
C28_Witness ==
    /\ call.name = "Merge"
    /\ call.left = 1 /\ call.right = 2
    /\ Len(InLeft) = 2 /\ Len(InRight) = 1
    /\ SameSite(InLeft[2], InRight[1])
    /\ ~SameSite(InLeft[1], InRight[1])
    /\ InLeft[2].GuardMatched /\ ~InRight[1].GuardMatched
    /\ InLeft[2].Guards # InRight[1].Guards
    /\ Out # Swapped
    /\ Out[1] = Swapped[2] /\ Out[2] = Swapped[1]

----------------------------------------------------------------------------
(* Properties of guard resolution applied again *)

\* C29: guard resolution is idempotent: GuardMissing.NeedsGuardMatch() is false, so the
\* final-resolution rewrite applied to an already resolved pair leaves the producer as it
\* is and never yields a GuardMissing wrapping a GuardMissing, whatever the consumer's
\* GuardMatched
C29_GuardResolutionIdempotent ==
    Checked =>
        /\ ResolveGuardMissing(producer, consumer) = producer
        /\ producer.Annotation.variant = "GuardMissing" =>
              /\ ~NeedsGuardMatch(producer.Annotation)
              /\ producer.Annotation.OldAnnotation.variant # "GuardMissing"
              /\ \A matched \in BOOLEAN :
                    ResolveGuardMissing(producer, [consumer EXCEPT !.GuardMatched = matched])
                        = producer

\* an unguarded map read was rewritten to GuardMissing, and resolving the pair again
\* leaves it so
C29_Witness ==
    /\ Checked
    /\ ~consumer.GuardMatched
    /\ Original.Annotation.variant = "MapRead"
    /\ producer.Annotation = GuardMissing(Original.Annotation)
    /\ ResolveGuardMissing(producer, consumer) = producer

----------------------------------------------------------------------------
(* Properties of a flow from a site to itself *)

\* the producer and the consumer evaluated depend on one site, both shallowly or both deeply
SelfFlow ==
    /\ ProducerKind(producer.Annotation) \in ConditionalKinds
    /\ ConsumerKind(consumer.Annotation) = ProducerKind(producer.Annotation)
    /\ ConsumerUnderlyingSite(consumer.Annotation) = ProducerUnderlyingSite(producer.Annotation)

\* C30: a flow from a site to itself is never reported: for any key k and any annotation
\* map, a producer that fires if k is shallowly nilable and a consumer that fires if k is
\* shallowly nonnil never both fire (likewise the deep pair); when k is in the map exactly
\* one of the two fires, when k is absent neither does
C30_SelfFlowNeverReported ==
    SelfFlow =>
        LET k == ProducerUnderlyingSite(producer.Annotation) IN
        /\ \A m \in FiringMaps(k) :
              LET p == CheckProduce(producer.Annotation, m)
                  c == CheckConsume(consumer.Annotation, m)
              IN /\ ~(p /\ c)
                 /\ ~Triggers(producer, consumer, m)
                 /\ k \in DOMAIN m => (p <=> ~c)
                 /\ k \notin DOMAIN m => ~p /\ ~c
        /\ pc = "reported" => ~diag.reported

\* the element type T read from a map and assigned into a map, evaluated on a map that
\* holds T deeply nilable and shallowly nonnil: only the producer fires, nothing is reported
C30_Witness ==
    /\ pc = "reported"
    /\ SelfFlow
    /\ producer.Annotation.variant = "MapRead"
    /\ consumer.Annotation.variant = "MapAssign"
    /\ annMap = (TypeNameAnnotationKey("T") :> [IsNilable |-> FALSE, IsDeepNilable |-> TRUE])
    /\ CheckProduce(producer.Annotation, annMap)
    /\ ~CheckConsume(consumer.Annotation, annMap)
    /\ ~diag.reported

====
